---- MODULE Spec2Model ----
(***************************************************************************)
(* PlayNext: a browser client (static HTML/JS pages) talking to a REST     *)
(* backend over bearer-token requests.                                     *)
(*                                                                         *)
(* The pages under src/ are modelled handler by handler.  The backend      *)
(* (rating CRUD, token validation, recommendation generation and cache)    *)
(* is not part of src/; its operators are modelled from spec.md and are    *)
(* marked "backend" below.                                                 *)
(***************************************************************************)
EXTENDS Integers, FiniteSets, Sequences, TLC

(***************************************************************************)
(* Bounds and domains                                                      *)
(***************************************************************************)
MaxRatingId == 2          \* rating ids the backend hands out: 1..MaxRatingId

Users == {"alice", "bob"}
Games == {"g1", "g2"}
Scores == {4, 9}          \* backend scores (scale 1..10) used by the requests
RecItems == {"r1", "r2"}  \* recommendation items the external API can name
NoUser == "nobody"

\* A bearer token: the JWT of a user (valid or expired), or a string that is
\* no JWT.  NoToken is localStorage.getItem('accessToken') === null.
ValidTokens == [sub : Users, kind : {"valid"}]
ExpiredTokens == [sub : Users, kind : {"expired"}]
MalformedToken == [sub |-> NoUser, kind |-> "malformed"]
NoToken == [sub |-> NoUser, kind |-> "none"]
BadTokens == ExpiredTokens \cup {MalformedToken}
Tokens == ValidTokens \cup BadTokens

VARIABLES
    \* ---- backend
    ratings,        \* stored ratings: records [id, user, game, rating]
    nextRatingId,   \* next rating id to hand out
    recCache,       \* per user: [present, recs], the cached recommendation set
    srv,            \* the last request the backend answered (history)
    deletedPairs,   \* <<user, game>> whose rating was deleted and not re-created
    \* ---- browser
    token,          \* localStorage 'accessToken'
    location,       \* the page the browser shows
    handled,        \* the response the profile or ratings page handled last (history)
    header,         \* #welcomeMessage, #logoutButton, #loginLink, #registerLink
    loginStatus,    \* the last return of checkLoginStatus: page, value, token stored
    \* ---- profile page (profile.html + js/recommendations.js)
    recReq,         \* the recommendations fetch in flight
    infoReq,        \* the /users/me fetch in flight
    container,      \* #recommendations-container
    recStatus,      \* #recommendations-status
    generateButton, \* #generateRecommendationsButton
    profileInfo,    \* the four #profile-* fields
    \* ---- ratings page (static/ratings.html and its game-specific version)
    pageVersion,    \* which ratings page file is loaded
    urlGameId,      \* ?game_id= of the page URL ("" when absent)
    currentUserId,  \* let currentUserId
    fetchReq,       \* the fetchRatings request in flight
    submitReq,      \* the rateGameForm submit request in flight
    deleteReq,      \* the deleteRating request in flight
    ratedRows,      \* rows of #ratedGamesTableBody
    rowsStatus,     \* status of the response the rows were taken from (0: none)
    form,           \* rateGameForm: data-rating-id, gameSelect, backendRatingValue
    rateGameMessage, \* #rateGameMessage
    \* ---- backend: the games added through the game list page
    catalog,        \* titles of the games in the catalogue
    \* ---- login form (login.html and the login document of backlog.html)
    loginReq,       \* the /auth/token request in flight
    loginMessage,   \* #loginMessage
    \* ---- game list page (static/index.html)
    gamesReq,       \* the fetchGames request in flight
    earlierGamesReq, \* a fetchGames request still in flight when gamesReq was sent
    addGameReq,     \* the addGameForm submit request in flight
    deleteGameReq,  \* the deleteGame request in flight
    gameRows,       \* rows of #gamesTableBody
    addGameMessage, \* #addGameMessage
    \* ---- rating page of one game (static/rating.html)
    basicGameId,    \* ?game_id= of rating.html ("" when absent)
    listReq,        \* the /games/{id}/ratings request in flight
    ratingReq,      \* the ratings-form submit request in flight
    basicTable,     \* #ratings-table-body
    basicAlert,     \* the last alert() of rating.html
    \* ---- a message element and the timers of showMessage
    clock,          \* seconds since the page was loaded
    messageElement, \* textContent and style.display of the element
    hideTimers,     \* the times at which a pending setTimeout callback is due
    shownAt,        \* time of the most recent showMessage call (-1: none)
    \* ---- the star widget
    starCase,       \* a star count or a backend rating, and what is displayed
    \* ---- registration (static/register.html)
    accounts,       \* backend: usernames registered through the form
    registerReq,    \* the POST /users/ request in flight
    registerMessage \* #registerMessage

serverVars == <<ratings, nextRatingId, recCache, srv, deletedPairs>>
browserVars == <<token, location, handled>>
headerVars == <<header, loginStatus>>
profileVars == <<recReq, infoReq, container, recStatus, generateButton, profileInfo>>
ratingsPageVars == <<pageVersion, urlGameId, currentUserId, fetchReq, submitReq,
                     deleteReq, ratedRows, rowsStatus, form, rateGameMessage>>
loginVars == <<loginReq, loginMessage>>
indexVars == <<gamesReq, earlierGamesReq, addGameReq, deleteGameReq, gameRows, addGameMessage>>
basicVars == <<basicGameId, listReq, ratingReq, basicTable, basicAlert>>
sitePageVars == <<loginVars, indexVars, basicVars>>
siteVars == <<catalog, sitePageVars>>
messageVars == <<clock, messageElement, hideTimers, shownAt>>
registerVars == <<registerReq, registerMessage>>
idleVars == <<messageVars, starCase, accounts>>
moreVars == <<idleVars, registerVars>>
vars == <<serverVars, browserVars, headerVars, profileVars, ratingsPageVars, siteVars,
          moreVars>>

(***************************************************************************)
(* Backend                                                                 *)
(***************************************************************************)
\* The user a token authenticates; NoUser for an expired or malformed one.
TokenUser(t) == IF t.kind = "valid" THEN t.sub ELSE NoUser

\* Statuses the backend answers a bad token with.
AuthFailStatuses == {401, 403}

NoCache == [present |-> FALSE, recs |-> {}]
Cached(s) == [present |-> TRUE, recs |-> s]

RatingsOfUser(u) == {r \in ratings : r.user = u}
RatingsOfGame(g) == {r \in ratings : r.game = g}
RatingById(id) == {r \in ratings : r.id = id}

\* One answered request: who asked (the token's kind and the user it
\* authenticates), for what (of an authenticated request), what was
\* answered, whether the external API was called, and what the request found
\* and changed: whether the requester had ratings, had a rating of the game
\* to rate, who owned the rating to update or delete, the requester's cached
\* set, whether the stored ratings stayed as they were, and the users whose
\* cached set changed.
Txn(op, t, arg, o) ==
    [op |-> op, kind |-> t.kind, user |-> TokenUser(t),
     arg |-> IF TokenUser(t) = NoUser /\ op # "listGame" THEN <<>> ELSE arg,
     status |-> o.status, body |-> o.body, called |-> o.called,
     hadRatings |-> \E r \in ratings : r.user = TokenUser(t),
     hadPair |-> /\ op = "create"
                 /\ \E r \in ratings : r.user = TokenUser(t) /\ r.game = arg[1],
     owner |-> IF /\ op \in {"update", "delete"} /\ TokenUser(t) # NoUser
                  /\ \E r \in ratings : r.id = arg[1]
               THEN (CHOOSE r \in ratings : r.id = arg[1]).user
               ELSE NoUser,
     hadCache |-> IF TokenUser(t) \in Users THEN recCache[TokenUser(t)]
                  ELSE [present |-> FALSE, recs |-> {}],
     sameRatings |-> o.ratings = ratings,
     cacheChanged |-> {u \in Users : o.recCache[u] # recCache[u]}]
\* no request answered yet; NoAudit: no history is kept in this behaviour
NoTxn ==
    [op |-> "none", kind |-> "none", user |-> NoUser, arg |-> <<>>, status |-> 0,
     body |-> {}, called |-> FALSE, hadRatings |-> FALSE, hadPair |-> FALSE,
     owner |-> NoUser,
     hadCache |-> [present |-> FALSE, recs |-> {}],
     sameRatings |-> TRUE, cacheChanged |-> {}]
NoAudit == [NoTxn EXCEPT !.op = "off"]

\* An outcome of a backend operation: the response and the stored state after.
Outcome(status, body, rs, nid, cache, dp, called) ==
    [status |-> status, body |-> body, ratings |-> rs, nextRatingId |-> nid,
     recCache |-> cache, deletedPairs |-> dp, called |-> called]
Unchanged(status, body) ==
    Outcome(status, body, ratings, nextRatingId, recCache, deletedPairs, FALSE)
AuthFailure == {Unchanged(st, {}) : st \in AuthFailStatuses}

\* create_rating without the conflict check
create_rating_NoConflict(t, g, v) ==
    LET u == TokenUser(t) IN
    IF u = NoUser THEN AuthFailure
    ELSE LET new == [id |-> nextRatingId, user |-> u, game |-> g, rating |-> v] IN
         {Outcome(200, {new}, ratings \cup {new}, nextRatingId + 1, recCache,
                  deletedPairs \ {<<u, g>>}, FALSE)}

\* backend: POST /users/me/ratings/ {game_id, rating}
create_rating(t, g, v) ==
    LET u == TokenUser(t) IN
    IF u = NoUser THEN AuthFailure
    ELSE IF \E r \in ratings : r.user = u /\ r.game = g
    THEN {Unchanged(409, {})}
    ELSE LET new == [id |-> nextRatingId, user |-> u, game |-> g, rating |-> v] IN
         {Outcome(200, {new}, ratings \cup {new}, nextRatingId + 1, recCache,
                  deletedPairs \ {<<u, g>>}, FALSE)}

\* update_rating without the ownership check
update_rating_AnyUser(t, id, v) ==
    LET u == TokenUser(t) IN
    IF u = NoUser THEN AuthFailure
    ELSE IF RatingById(id) = {} THEN {Unchanged(404, {})}
    ELSE LET old == CHOOSE r \in ratings : r.id = id
             new == [old EXCEPT !.rating = v] IN
         {Outcome(200, {new}, (ratings \ {old}) \cup {new}, nextRatingId,
                  recCache, deletedPairs, FALSE)}

\* backend: PUT /users/me/ratings/{id} {rating}
update_rating(t, id, v) ==
    LET u == TokenUser(t) IN
    IF u = NoUser THEN AuthFailure
    ELSE IF RatingById(id) = {} THEN {Unchanged(404, {})}
    ELSE LET old == CHOOSE r \in ratings : r.id = id IN
         IF old.user # u THEN {Unchanged(403, {}), Unchanged(404, {})}
         ELSE LET new == [old EXCEPT !.rating = v] IN
              {Outcome(200, {new}, (ratings \ {old}) \cup {new}, nextRatingId,
                       recCache, deletedPairs, FALSE)}

\* delete_rating that answers success and keeps the row
delete_rating_KeepsRow(t, id) ==
    LET u == TokenUser(t) IN
    IF u = NoUser THEN AuthFailure
    ELSE IF RatingById(id) = {} THEN {Unchanged(404, {})}
    ELSE LET old == CHOOSE r \in ratings : r.id = id IN
         IF old.user # u THEN {Unchanged(403, {}), Unchanged(404, {})}
         ELSE {Outcome(200, {}, ratings, nextRatingId, recCache,
                       deletedPairs \cup {<<u, old.game>>}, FALSE)}

\* backend: DELETE /users/me/ratings/{id}
delete_rating(t, id) ==
    LET u == TokenUser(t) IN
    IF u = NoUser THEN AuthFailure
    ELSE IF RatingById(id) = {} THEN {Unchanged(404, {})}
    ELSE LET old == CHOOSE r \in ratings : r.id = id IN
         IF old.user # u THEN {Unchanged(403, {}), Unchanged(404, {})}
         ELSE {Outcome(200, {}, ratings \ {old}, nextRatingId, recCache,
                       deletedPairs \cup {<<u, old.game>>}, FALSE)}

\* backend: GET /users/me/ratings
list_user_ratings(t) ==
    LET u == TokenUser(t) IN
    IF u = NoUser THEN AuthFailure ELSE {Unchanged(200, RatingsOfUser(u))}

\* backend: GET /games/{id}/ratings (rating.html calls it without a token)
list_game_ratings(g) == {Unchanged(200, RatingsOfGame(g))}

\* backend: GET /users/me
get_me(t) ==
    LET u == TokenUser(t) IN
    IF u = NoUser THEN AuthFailure ELSE {Unchanged(200, {u})}

\* What the external generative API can do with one call: answer a list that
\* parses, or fail (an error, or text that does not parse).
ApiAnswers == [ok : {TRUE}, recs : SUBSET RecItems] \cup {[ok |-> FALSE, recs |-> {}]}

\* get_recommendations that returns a cached set also when forced
get_recommendations_IgnoresForce(t, force) ==
    LET u == TokenUser(t) IN
    IF u = NoUser THEN AuthFailure
    ELSE IF RatingsOfUser(u) = {} THEN {Unchanged(200, {})}
    ELSE IF recCache[u].present THEN {Unchanged(200, recCache[u].recs)}
    ELSE {IF a.ok
          THEN Outcome(200, a.recs, ratings, nextRatingId,
                       [recCache EXCEPT ![u] = Cached(a.recs)], deletedPairs, TRUE)
          ELSE Outcome(500, {}, ratings, nextRatingId, recCache, deletedPairs, TRUE)
          : a \in ApiAnswers}

\* get_recommendations that never looks at the cache
get_recommendations_AlwaysCalls(t, force) ==
    LET u == TokenUser(t) IN
    IF u = NoUser THEN AuthFailure
    ELSE IF RatingsOfUser(u) = {} THEN {Unchanged(200, {})}
    ELSE {IF a.ok
          THEN Outcome(200, a.recs, ratings, nextRatingId,
                       [recCache EXCEPT ![u] = Cached(a.recs)], deletedPairs, TRUE)
          ELSE Outcome(500, {}, ratings, nextRatingId, recCache, deletedPairs, TRUE)
          : a \in ApiAnswers}

\* get_recommendations with one cached set for all users
get_recommendations_SharedCache(t, force) ==
    LET u == TokenUser(t) IN
    IF u = NoUser THEN AuthFailure
    ELSE IF RatingsOfUser(u) = {} THEN {Unchanged(200, {})}
    ELSE IF recCache[u].present /\ ~force THEN {Unchanged(200, recCache[u].recs)}
    ELSE {IF a.ok
          THEN Outcome(200, a.recs, ratings, nextRatingId,
                       [x \in Users |-> Cached(a.recs)], deletedPairs, TRUE)
          ELSE Outcome(500, {}, ratings, nextRatingId, recCache, deletedPairs, TRUE)
          : a \in ApiAnswers}

\* backend: GET /users/me/recommendations/[?force_generate=true]
\* spec.md 4.1: fetch the ratings (none: an empty list), return the cached
\* set unless forced, otherwise call the external API, parse and cache.
get_recommendations(t, force) ==
    LET u == TokenUser(t) IN
    IF u = NoUser THEN AuthFailure
    ELSE IF RatingsOfUser(u) = {} THEN {Unchanged(200, {})}
    ELSE IF recCache[u].present /\ ~force THEN {Unchanged(200, recCache[u].recs)}
    ELSE {IF a.ok
          THEN Outcome(200, a.recs, ratings, nextRatingId,
                       [recCache EXCEPT ![u] = Cached(a.recs)], deletedPairs, TRUE)
          ELSE Outcome(500, {}, ratings, nextRatingId, recCache, deletedPairs, TRUE)
          : a \in ApiAnswers}

\* The backend answers one request: the stored state moves to the outcome's
\* and the request is recorded.
Answer(op, t, arg, o) ==
    /\ o.nextRatingId <= MaxRatingId + 1
    /\ ratings' = o.ratings
    /\ nextRatingId' = o.nextRatingId
    /\ recCache' = o.recCache
    /\ deletedPairs' = o.deletedPairs
    /\ srv' = IF srv = NoAudit THEN NoAudit ELSE Txn(op, t, arg, o)

(***************************************************************************)
(* Requests of other clients: any request, with any token, at any time.    *)
(***************************************************************************)
OtherCreateRating(t, g, v) ==
    /\ \E o \in create_rating(t, g, v) : Answer("create", t, <<g>>, o)
    /\ UNCHANGED <<moreVars, siteVars, headerVars, browserVars, profileVars, ratingsPageVars>>

OtherUpdateRating(t, id, v) ==
    /\ \E o \in update_rating(t, id, v) : Answer("update", t, <<id>>, o)
    /\ UNCHANGED <<moreVars, siteVars, headerVars, browserVars, profileVars, ratingsPageVars>>

OtherDeleteRating(t, id) ==
    /\ \E o \in delete_rating(t, id) : Answer("delete", t, <<id>>, o)
    /\ UNCHANGED <<moreVars, siteVars, headerVars, browserVars, profileVars, ratingsPageVars>>

OtherListUserRatings(t) ==
    /\ \E o \in list_user_ratings(t) : Answer("listUser", t, <<>>, o)
    /\ UNCHANGED <<moreVars, siteVars, headerVars, browserVars, profileVars, ratingsPageVars>>

OtherListGameRatings(g) ==
    /\ \E o \in list_game_ratings(g) : Answer("listGame", NoToken, <<g>>, o)
    /\ UNCHANGED <<moreVars, siteVars, headerVars, browserVars, profileVars, ratingsPageVars>>

OtherRecommendations(t, force) ==
    /\ \E o \in get_recommendations(t, force) : Answer("rec", t, <<force>>, o)
    /\ UNCHANGED <<moreVars, siteVars, headerVars, browserVars, profileVars, ratingsPageVars>>

(***************************************************************************)
(* Browser: requests in flight, localStorage, navigation                   *)
(***************************************************************************)
\* A fetch() of the page: not started, sent, or answered by the backend and
\* on its way back.
NoReq == [stage |-> "none", token |-> NoToken, arg |-> <<>>, status |-> 0, body |-> {}]
Sent(t, arg) == [stage |-> "sent", token |-> t, arg |-> arg, status |-> 0, body |-> {}]
Served(req, o) == [req EXCEPT !.stage = "served", !.status = o.status, !.body = o.body]

\* response.ok
Ok(status) == status >= 200 /\ status <= 299

\* What the page did with a response: the request, the status (0: fetch
\* rejected), whether the body parsed, and the body.
Handled(op, req, status, parsed) ==
    [op |-> op, arg |-> req.arg, status |-> status, parsed |-> parsed,
     body |-> IF status = 0 THEN {} ELSE req.body]
NoHandled == [op |-> "none", arg |-> <<>>, status |-> 0, parsed |-> FALSE, body |-> {}]

\* atob/JSON.parse of the token's payload succeeds
Decodable(t) == t.kind \in {"valid", "expired"}

\* getAccessToken() / getAuthToken(): truthy when a token is stored
HasToken(t) == t # NoToken

\* a message element before any showMessage call
NoMessage == [text |-> "", display |-> "none"]

\* the star widget and a row of the table before any value is given to them:
\* currentStarRating, backendRatingValue, the stars marked hovered, the stars
\* of #starRatingInput that are filled, the rating a row shows, the stars of
\* the row that are filled, and the star count the row's rating was stored
\* from (0: not stored from the widget)
NoStarCase == [stars |-> 0, score |-> 0, hovered |-> 0, inputFilled |-> 0,
               rating |-> 0, rowFilled |-> 0, fromStars |-> 0]

\* #ratings-table-body of rating.html
BasicTable(view, rows) == [view |-> view, rows |-> rows]

\* the login form, the game list page and rating.html as they are when the
\* browser shows another page
LoginUnload ==
    /\ loginReq' = NoReq
    /\ loginMessage' = ""
IndexUnload ==
    /\ gamesReq' = NoReq
    /\ earlierGamesReq' = NoReq
    /\ addGameReq' = NoReq
    /\ deleteGameReq' = NoReq
    /\ gameRows' = {}
    /\ addGameMessage' = ""
BasicUnload ==
    /\ basicGameId' = ""
    /\ listReq' = NoReq
    /\ ratingReq' = NoReq
    /\ basicTable' = BasicTable("markup", {})
    /\ basicAlert' = ""
RegisterUnload ==
    /\ registerReq' = NoReq
    /\ registerMessage' = ""
SiteUnload == LoginUnload /\ IndexUnload /\ BasicUnload /\ RegisterUnload

(***************************************************************************)
(* Page header and checkLoginStatus                                        *)
(***************************************************************************)
\* The header as every page ships it: the welcome message and the logout
\* button hidden, the login and register links shown.
HeaderMarkup ==
    [welcomeText |-> "", welcomeShown |-> FALSE, logoutShown |-> FALSE,
     loginLinkShown |-> TRUE, registerLinkShown |-> TRUE]

\* the branch of checkLoginStatus for a token whose payload decodes
LoggedInHeader(sub) ==
    [welcomeText |-> sub, welcomeShown |-> TRUE, logoutShown |-> TRUE,
     loginLinkShown |-> FALSE, registerLinkShown |-> FALSE]

\* LoggedOutHeader that leaves the logout button as it is
LoggedOutHeader_KeepsLogout(hdr) ==
    [hdr EXCEPT !.welcomeShown = FALSE,
                !.loginLinkShown = TRUE, !.registerLinkShown = TRUE]

\* the else branch of checkLoginStatus: the text of the welcome message stays
LoggedOutHeader(hdr) ==
    [hdr EXCEPT !.welcomeShown = FALSE, !.logoutShown = FALSE,
                !.loginLinkShown = TRUE, !.registerLinkShown = TRUE]

\* The pages with a header.  logout() of part_001 and of main.js removes the
\* token and leaves; on the other pages it also calls checkLoginStatus().
HeaderPages ==
    {"index.html", "register.html", "login.html", "backlog.html", "profile.html",
     "ratings.html", "part_001", "main.js"}
LogoutRechecks(page) == page \notin {"part_001", "main.js"}

\* the value checkLoginStatus returns: main.js has no return statement
Returns(page, value) ==
    IF page = "main.js" THEN "undefined" ELSE IF value THEN "true" ELSE "false"

\* the header after logout() on a page
logoutHeader(page, hdr) == IF LogoutRechecks(page) THEN LoggedOutHeader(hdr) ELSE hdr

\* checkLoginStatus() of a page, for the stored token t and the header hdr:
\* the token stored and the header on return, the value returned, and
\* whether logout() was called (the catch branch of a token that does not
\* decode, which returns true like the try branch).
checkLoginStatus(page, t, hdr) ==
    IF ~HasToken(t)
    THEN [token |-> t, header |-> LoggedOutHeader(hdr),
          result |-> Returns(page, FALSE), left |-> FALSE]
    ELSE IF Decodable(t)
    THEN [token |-> t, header |-> LoggedInHeader(t.sub),
          result |-> Returns(page, TRUE), left |-> FALSE]
    ELSE [token |-> NoToken, header |-> logoutHeader(page, hdr),
          result |-> Returns(page, TRUE), left |-> TRUE]

\* the record of a call of checkLoginStatus
Checked(page, c) == [page |-> page, result |-> c.result, token |-> c.token]
NotChecked == [page |-> "none", result |-> "none", token |-> NoToken]

\* logout() called by a handler or a click: the header and, where logout()
\* calls checkLoginStatus() (the token is removed: it returns false), its
\* record
LogoutHeader(page) ==
    /\ header' = logoutHeader(page, header)
    /\ loginStatus' = IF LogoutRechecks(page)
                      THEN [page |-> page, result |-> Returns(page, FALSE), token |-> NoToken]
                      ELSE loginStatus

(***************************************************************************)
(* Profile page: profile.html and js/recommendations.js                    *)
(***************************************************************************)
ButtonReady == [disabled |-> FALSE, text |-> "Generate New Recommendations"]
ButtonBusy == [disabled |-> TRUE, text |-> "Generating..."]

\* The page as profile.html ships it (lines 142-157).
ProfileMarkup ==
    [recReq |-> NoReq, infoReq |-> NoReq,
     container |-> [view |-> "initial", cards |-> {}],
     recStatus |-> [text |-> "", hidden |-> TRUE, error |-> FALSE, emptyList |-> FALSE],
     generateButton |-> ButtonReady,
     profileInfo |-> "Loading..."]

\* the page is unloaded: a later load starts from the markup
ProfileUnload ==
    /\ recReq' = ProfileMarkup.recReq
    /\ infoReq' = ProfileMarkup.infoReq
    /\ container' = ProfileMarkup.container
    /\ recStatus' = ProfileMarkup.recStatus
    /\ generateButton' = ProfileMarkup.generateButton
    /\ profileInfo' = ProfileMarkup.profileInfo

\* logout() of profile.html: the token is removed and the browser leaves for
\* the login page; the page and its pending fetches are gone.
ProfileLogout ==
    /\ token' = NoToken
    /\ location' = "login"
    /\ ProfileUnload

\* RecStart that does not disable the button
RecStart_ButtonStaysEnabled(t, st, force) ==
    LET cleared == [st EXCEPT !.text = "", !.hidden = TRUE] IN
    IF ~HasToken(t)
    THEN /\ container' = [view |-> "empty", cards |-> {}]
         /\ recStatus' = [cleared EXCEPT !.text = "login", !.hidden = FALSE]
         /\ generateButton' = ButtonReady
         /\ recReq' = NoReq
    ELSE /\ container' = [view |-> "loading", cards |-> {}]
         /\ recStatus' = cleared
         /\ generateButton' = ButtonReady
         /\ recReq' = Sent(t, <<force>>)

\* fetchAndDisplayRecommendations, up to the fetch (lines 16-53), on the
\* status element st.
RecStart(t, st, force) ==
    LET cleared == [st EXCEPT !.text = "", !.hidden = TRUE] IN
    IF ~HasToken(t)
    THEN /\ container' = [view |-> "empty", cards |-> {}]
         /\ recStatus' = [cleared EXCEPT !.text = "login", !.hidden = FALSE]
         /\ generateButton' = ButtonReady
         /\ recReq' = NoReq
    ELSE /\ container' = [view |-> "loading", cards |-> {}]
         /\ recStatus' = cleared
         /\ generateButton' = ButtonBusy
         /\ recReq' = Sent(t, <<force>>)

\* fetchAndDisplayUserInfo, up to the fetch (lines 123-140)
InfoStart(t) ==
    IF ~HasToken(t)
    THEN /\ profileInfo' = "N/A"
         /\ infoReq' = NoReq
    ELSE /\ profileInfo' = "Loading..."
         /\ infoReq' = Sent(t, <<>>)

\* RecRendered that leaves the status hidden for an empty list
RecRendered_EmptyHidden(st, failed, recs) ==
    IF failed
    THEN [st EXCEPT !.text = "failed", !.hidden = FALSE, !.error = TRUE]
    ELSE [st EXCEPT !.hidden = TRUE]

\* The status element after the try block of fetchAndDisplayRecommendations
\* (lines 55-113) for a response that arrived: failed is the catch branch.
RecRendered(st, failed, recs) ==
    IF failed
    THEN [st EXCEPT !.text = "failed", !.hidden = FALSE, !.error = TRUE]
    ELSE IF recs # {}
    THEN [st EXCEPT !.hidden = TRUE]
    ELSE [st EXCEPT !.text = "ratemore", !.hidden = FALSE, !.emptyList = TRUE]

\* RecCards that renders the list of a body that did not parse
RecCards_IgnoresFailure(failed, recs) ==
    IF recs = {}
    THEN [view |-> "empty", cards |-> {}]
    ELSE [view |-> "cards", cards |-> recs]

\* #recommendations-container after the try block
RecCards(failed, recs) ==
    IF failed \/ recs = {}
    THEN [view |-> "empty", cards |-> {}]
    ELSE [view |-> "cards", cards |-> recs]

\* LoadProfilePage that asks for a new generation
LoadProfilePage_Forced ==
    /\ LET c == checkLoginStatus("profile.html", token, HeaderMarkup) IN
       /\ header' = c.header
       /\ loginStatus' = Checked("profile.html", c)
       /\ IF c.left
          THEN ProfileLogout
          ELSE /\ location' = "profile"
               /\ token' = token
               /\ RecStart(token, ProfileMarkup.recStatus, TRUE)
               /\ InfoStart(token)
    /\ handled' = NoHandled
    /\ SiteUnload
    /\ UNCHANGED <<idleVars, catalog, serverVars, ratingsPageVars>>

\* DOMContentLoaded of the profile page: checkLoginStatus() of profile.html
\* (a token that does not decode: logout()), then
\* fetchAndDisplayRecommendations(false) and fetchAndDisplayUserInfo().
LoadProfilePage ==
    /\ LET c == checkLoginStatus("profile.html", token, HeaderMarkup) IN
       /\ header' = c.header
       /\ loginStatus' = Checked("profile.html", c)
       /\ IF c.left
          THEN ProfileLogout
          ELSE /\ location' = "profile"
               /\ token' = token
               /\ RecStart(token, ProfileMarkup.recStatus, FALSE)
               /\ InfoStart(token)
    /\ handled' = NoHandled
    /\ SiteUnload
    /\ UNCHANGED <<idleVars, catalog, serverVars, ratingsPageVars>>

\* click on #generateRecommendationsButton: fetchAndDisplayRecommendations(true)
ClickGenerate ==
    /\ location = "profile"
    /\ ~generateButton.disabled
    /\ RecStart(token, recStatus, TRUE)
    /\ handled' = NoHandled
    /\ UNCHANGED <<moreVars, siteVars, headerVars, serverVars, token, location, infoReq, profileInfo, ratingsPageVars>>

\* the backend answers the recommendations request of the page
ServeRec ==
    /\ recReq.stage = "sent"
    /\ \E o \in get_recommendations(recReq.token, recReq.arg[1]) :
          /\ Answer("rec", recReq.token, recReq.arg, o)
          /\ recReq' = Served(recReq, o)
    /\ UNCHANGED <<moreVars, siteVars, headerVars, browserVars, infoReq, container, recStatus, generateButton,
                   profileInfo, ratingsPageVars>>

\* RecResponse without the finally block: the button stays as the fetch
\* left it
RecResponse_NoFinally(parsed) ==
    /\ recReq.stage = "served"
    /\ LET failed == ~Ok(recReq.status) \/ ~parsed IN
       /\ container' = RecCards(failed, recReq.body)
       /\ recStatus' = RecRendered(recStatus, failed, recReq.body)
    /\ generateButton' = generateButton
    /\ recReq' = NoReq
    /\ handled' = Handled("rec", recReq, recReq.status, parsed)
    /\ UNCHANGED <<moreVars, siteVars, headerVars, serverVars, token, location, infoReq, profileInfo, ratingsPageVars>>

\* fetchAndDisplayRecommendations after the fetch (lines 55-119): the
\* response arrived; parsed tells whether response.json() succeeds.
RecResponse(parsed) ==
    /\ recReq.stage = "served"
    /\ LET failed == ~Ok(recReq.status) \/ ~parsed IN
       /\ container' = RecCards(failed, recReq.body)
       /\ recStatus' = RecRendered(recStatus, failed, recReq.body)
    /\ generateButton' = ButtonReady
    /\ recReq' = NoReq
    /\ handled' = Handled("rec", recReq, recReq.status, parsed)
    /\ UNCHANGED <<moreVars, siteVars, headerVars, serverVars, token, location, infoReq, profileInfo, ratingsPageVars>>

\* RecNetworkError that sends the request again
RecNetworkError_Retries ==
    /\ recReq.stage \in {"sent", "served"}
    /\ container' = RecCards(TRUE, {})
    /\ recStatus' = RecRendered(recStatus, TRUE, {})
    /\ generateButton' = ButtonReady
    /\ recReq' = Sent(recReq.token, recReq.arg)
    /\ handled' = Handled("rec", recReq, 0, FALSE)
    /\ UNCHANGED <<moreVars, siteVars, headerVars, serverVars, token, location, infoReq, profileInfo, ratingsPageVars>>

\* fetch() of the recommendations rejects (network error): the catch branch
RecNetworkError ==
    /\ recReq.stage \in {"sent", "served"}
    /\ container' = RecCards(TRUE, {})
    /\ recStatus' = RecRendered(recStatus, TRUE, {})
    /\ generateButton' = ButtonReady
    /\ recReq' = NoReq
    /\ handled' = Handled("rec", recReq, 0, FALSE)
    /\ UNCHANGED <<moreVars, siteVars, headerVars, serverVars, token, location, infoReq, profileInfo, ratingsPageVars>>

\* the backend answers the /users/me request of the page
ServeInfo ==
    /\ infoReq.stage = "sent"
    /\ \E o \in get_me(infoReq.token) :
          /\ Answer("me", infoReq.token, infoReq.arg, o)
          /\ infoReq' = Served(infoReq, o)
    /\ UNCHANGED <<moreVars, siteVars, headerVars, browserVars, recReq, container, recStatus, generateButton,
                   profileInfo, ratingsPageVars>>

\* fetchAndDisplayUserInfo after the fetch (lines 142-165)
InfoResponse(parsed) ==
    /\ infoReq.stage = "served"
    /\ handled' = Handled("info", infoReq, infoReq.status, parsed)
    /\ IF infoReq.status \in {401, 403}
       THEN ProfileLogout /\ LogoutHeader("profile.html")
       ELSE /\ profileInfo' = IF Ok(infoReq.status) /\ parsed
                              THEN CHOOSE u \in infoReq.body : TRUE
                              ELSE "Error loading"
            /\ infoReq' = NoReq
            /\ UNCHANGED <<headerVars, token, location, recReq, container, recStatus,
                           generateButton>>
    /\ UNCHANGED <<moreVars, siteVars, serverVars, ratingsPageVars>>

\* fetch() of /users/me rejects
InfoNetworkError ==
    /\ infoReq.stage \in {"sent", "served"}
    /\ profileInfo' = "Error loading"
    /\ infoReq' = NoReq
    /\ handled' = Handled("info", infoReq, 0, FALSE)
    /\ UNCHANGED <<moreVars, siteVars, headerVars, serverVars, token, location, recReq, container, recStatus,
                   generateButton, ratingsPageVars>>

\* click on #logoutButton of the profile page (shown while logged in)
ProfileClickLogout ==
    /\ location = "profile"
    /\ HasToken(token)
    /\ ProfileLogout
    /\ LogoutHeader("profile.html")
    /\ handled' = NoHandled
    /\ UNCHANGED <<moreVars, siteVars, serverVars, ratingsPageVars>>

\* login page: a successful submit stores the access_token of /auth/token
Login(u) ==
    /\ location = "login"
    /\ token' = [sub |-> u, kind |-> "valid"]
    /\ handled' = NoHandled
    /\ UNCHANGED <<moreVars, siteVars, headerVars, serverVars, location, profileVars, ratingsPageVars>>

\* time passes: the stored token's exp is reached
TokenExpires ==
    /\ token.kind = "valid"
    /\ token' = [token EXCEPT !.kind = "expired"]
    /\ UNCHANGED <<moreVars, siteVars, headerVars, serverVars, location, handled, profileVars, ratingsPageVars>>

(***************************************************************************)
(* Ratings page: static/ratings.html ("ratings.html") and the version with *)
(* the game-specific view, src/unnamed/part_001 ("part_001").              *)
(* One request of each kind is in flight at a time: the user acts on the   *)
(* form and the table when the list is not being fetched.                  *)
(***************************************************************************)
PageVersions == {"ratings.html", "part_001"}
StarCount == 5            \* the stars renderStars creates
MaxBackendRating == 12    \* largest rating a row is given to display
StarChoices == {3}        \* stars the user clicks in #starRatingInput
NoGame == ""

EmptyForm(game, disabled, hidden) ==
    [ratingId |-> 0, game |-> game, score |-> 0, stars |-> 0,
     label |-> "Submit Rating", disabled |-> disabled, hidden |-> hidden]

\* the page is unloaded: a later load starts from the markup
RatingsUnload ==
    /\ pageVersion' = "ratings.html"
    /\ urlGameId' = NoGame
    /\ currentUserId' = NoUser
    /\ fetchReq' = NoReq
    /\ submitReq' = NoReq
    /\ deleteReq' = NoReq
    /\ ratedRows' = {}
    /\ rowsStatus' = 0
    /\ form' = EmptyForm(NoGame, FALSE, FALSE)
    /\ rateGameMessage' = ""

\* logout() of the ratings page: the token is removed and the browser leaves
\* for the login page.
RatingsLogout ==
    /\ token' = NoToken
    /\ location' = "login"
    /\ RatingsUnload

\* convertStarsToBackendRating that keeps the star value
convertStarsToBackendRating_Stars(starValue) == starValue

\* convertStarsToBackendRating
convertStarsToBackendRating(starValue) == starValue * 2

\* Math.ceil(rating / 2), the data-star-rating of a row
StarsOf(rating) == (rating + 1) \div 2

\* renderStars(rating, container, isInput): the number of the five stars
\* that get the class 'filled' (ratings.html lines 357-401)
renderStars_NoCeil(rating, isInput) ==
    LET effectiveRating == IF isInput THEN rating ELSE rating \div 2 IN
    Cardinality({i \in 1..StarCount : i <= effectiveRating})
renderStars(rating, isInput) ==
    LET effectiveRating == IF isInput THEN rating ELSE StarsOf(rating) IN
    Cardinality({i \in 1..StarCount : i <= effectiveRating})

\* payload.user_id of a decoded token that carries the claim
PayloadUserId(t) == IF Decodable(t) THEN t.sub ELSE NoUser

\* payload.user_id || null (part_001 line 332): the payload of a token
\* carries sub; a payload without user_id gives null
PayloadUserIds(t) == {PayloadUserId(t), NoUser}

\* showActionButtons that gives every row its buttons
showActionButtons_All(ver, uid, r) == TRUE

\* showActionButtons of displayRatedGames: ratings.html gives every row its
\* Edit and Delete buttons, part_001 only the rows of currentUserId.
showActionButtons(ver, uid, r) ==
    IF ver = "ratings.html" THEN TRUE ELSE uid # NoUser /\ r.user = uid

\* displayRatedGames: one row for each rating, with or without its Edit and
\* Delete buttons (ratings.html lines 404-459, part_001 lines 490-603)
displayRatedGames(ver, uid, rs) ==
    {[id |-> r.id, user |-> r.user, game |-> r.game, rating |-> r.rating,
      controls |-> showActionButtons(ver, uid, r)] : r \in rs}

\* prefillFormIfRated(gameId): allUserRatings is never filled, so
\* existingRating is never found (part_001 lines 298, 606, 630-640).
allUserRatings == {}
prefillFormIfRated(f, g) ==
    IF \E r \in allUserRatings : r.game = g
    THEN LET r == CHOOSE x \in allUserRatings : x.game = g IN
         [f EXCEPT !.ratingId = r.id, !.game = r.game, !.score = r.rating,
                   !.stars = StarsOf(r.rating), !.label = "Update Rating",
                   !.disabled = TRUE]
    ELSE EmptyForm(g, TRUE, f.hidden)

\* The table of rated games: its rows and the status of the response they
\* were taken from (0: none).
Table(rows, status) == [rows |-> rows, status |-> status]
EmptyTable == Table({}, 0)

\* fetchRatings(gameId), up to the fetch, for a form f and a table: the
\* request and the form's visibility (ratings.html lines 462-476, part_001
\* lines 644-680).
FetchStart(ver, t, g, f, table) ==
    IF ~HasToken(t)
    THEN /\ fetchReq' = NoReq
         /\ ratedRows' = {}
         /\ rowsStatus' = 0
         /\ form' = IF ver = "part_001" THEN [f EXCEPT !.hidden = TRUE] ELSE f
    ELSE /\ fetchReq' = Sent(t, <<g>>)
         /\ ratedRows' = table.rows
         /\ rowsStatus' = table.status
         /\ form' = IF ver = "part_001" THEN [f EXCEPT !.hidden = (g # NoGame)] ELSE f

\* DOMContentLoaded of a ratings page: checkLoginStatus(), renderStars, the
\* dropdown (pre-selected and disabled on ?game_id=), fetchRatings.
LoadRatingsPage(ver, g) ==
    /\ ver = "ratings.html" => g = NoGame
    /\ LET c == checkLoginStatus(ver, token, HeaderMarkup) IN
       /\ header' = c.header
       /\ loginStatus' = Checked(ver, c)
       /\ IF c.left
          THEN RatingsLogout
          ELSE /\ location' = "ratings"
               /\ token' = token
               /\ pageVersion' = ver
               /\ urlGameId' = g
               /\ currentUserId' \in IF ver = "part_001" THEN PayloadUserIds(token)
                                     ELSE {NoUser}
               /\ submitReq' = NoReq
               /\ deleteReq' = NoReq
               /\ rateGameMessage' = ""
               /\ FetchStart(ver, token, g, EmptyForm(g, g # NoGame, FALSE), EmptyTable)
    /\ handled' = NoHandled
    /\ SiteUnload
    /\ UNCHANGED <<idleVars, catalog, serverVars, profileVars>>

\* the backend answers the list request of fetchRatings
ServeFetch ==
    /\ fetchReq.stage = "sent"
    /\ LET g == fetchReq.arg[1] IN
       \E o \in (IF g = NoGame THEN list_user_ratings(fetchReq.token)
                 ELSE list_game_ratings(g)) :
          /\ IF g = NoGame THEN Answer("listUser", fetchReq.token, <<>>, o)
             ELSE Answer("listGame", NoToken, <<g>>, o)
          /\ fetchReq' = Served(fetchReq, o)
    /\ UNCHANGED <<moreVars, siteVars, headerVars, browserVars, profileVars, pageVersion, urlGameId, currentUserId,
                   submitReq, deleteReq, ratedRows, rowsStatus, form, rateGameMessage>>

\* TableAfterFetch that displays every body that parses
TableAfterFetch_AnyParsed(ver, table, status, parsed, body) ==
    IF parsed THEN Table(body, status)
    ELSE IF ver = "part_001" THEN EmptyTable ELSE table

\* The table after fetchRatings handled a response: the body of an OK
\* response that parsed; otherwise ratings.html keeps the rows it has and
\* part_001 clears the table.
TableAfterFetch(ver, table, status, parsed, body) ==
    IF Ok(status) /\ parsed THEN Table(body, status)
    ELSE IF ver = "part_001" THEN EmptyTable ELSE table

\* fetchRatings after the fetch (ratings.html lines 478-495, part_001 lines
\* 682-711): status 0 is a rejected fetch.
FetchDone(status, parsed) ==
    /\ handled' = Handled("fetchRatings", fetchReq, status, parsed)
    /\ IF status = 401
       THEN RatingsLogout /\ LogoutHeader(pageVersion)
       ELSE /\ UNCHANGED headerVars
            /\ LET table == TableAfterFetch(pageVersion, Table(ratedRows, rowsStatus),
                                             status, parsed,
                                             displayRatedGames(pageVersion, currentUserId,
                                                               fetchReq.body)) IN
               /\ ratedRows' = table.rows
               /\ rowsStatus' = table.status
            /\ rateGameMessage' = IF Ok(status) /\ parsed THEN rateGameMessage
                                  ELSE IF ~parsed THEN "unexpected"
                                  ELSE "failed"
            /\ form' = IF /\ Ok(status) /\ parsed /\ pageVersion = "part_001"
                          /\ fetchReq.arg[1] = NoGame /\ urlGameId # NoGame
                       THEN prefillFormIfRated(form, urlGameId)
                       ELSE form
            /\ fetchReq' = NoReq
            /\ UNCHANGED <<token, location, pageVersion, urlGameId, currentUserId,
                           submitReq, deleteReq>>
    /\ UNCHANGED <<moreVars, siteVars, serverVars, profileVars>>

FetchResponse(parsed) ==
    /\ fetchReq.stage = "served"
    /\ FetchDone(fetchReq.status, parsed)

FetchNetworkError ==
    /\ fetchReq.stage \in {"sent", "served"}
    /\ FetchDone(0, FALSE)

\* no request of the ratings page is in flight
RatingsIdle == fetchReq = NoReq /\ submitReq = NoReq /\ deleteReq = NoReq

\* click on a star of #starRatingInput
ClickStar(n) ==
    /\ location = "ratings" /\ RatingsIdle /\ ~form.hidden
    /\ form' = [form EXCEPT !.stars = n, !.score = convertStarsToBackendRating(n)]
    /\ handled' = NoHandled
    /\ UNCHANGED <<moreVars, siteVars, headerVars, serverVars, token, location, profileVars, pageVersion, urlGameId,
                   currentUserId, fetchReq, submitReq, deleteReq, ratedRows,
                   rowsStatus, rateGameMessage>>

\* the user picks a game in #gameSelect
SelectGame(g) ==
    /\ location = "ratings" /\ RatingsIdle /\ ~form.hidden /\ ~form.disabled
    /\ form' = [form EXCEPT !.game = g]
    /\ handled' = NoHandled
    /\ UNCHANGED <<moreVars, siteVars, headerVars, serverVars, token, location, profileVars, pageVersion, urlGameId,
                   currentUserId, fetchReq, submitReq, deleteReq, ratedRows,
                   rowsStatus, rateGameMessage>>

\* click on the Edit button of row r (ratings.html lines 437-456, part_001
\* lines 572-594)
ClickEdit(r) ==
    /\ location = "ratings" /\ RatingsIdle
    /\ r \in ratedRows
    /\ r.controls
    /\ form' = [form EXCEPT !.ratingId = r.id, !.game = r.game, !.score = r.rating,
                            !.stars = StarsOf(r.rating), !.label = "Update Rating",
                            !.disabled = (pageVersion = "part_001") \/ form.disabled]
    /\ rateGameMessage' = "editing"
    /\ handled' = NoHandled
    /\ UNCHANGED <<moreVars, siteVars, headerVars, serverVars, token, location, profileVars, pageVersion, urlGameId,
                   currentUserId, fetchReq, submitReq, deleteReq, ratedRows, rowsStatus>>

\* SubmitRating that sends POST also in edit mode
SubmitRating_AlwaysPost ==
    /\ location = "ratings" /\ RatingsIdle /\ ~form.hidden
    /\ handled' = NoHandled
    /\ IF ~HasToken(token)
       THEN /\ rateGameMessage' = "login"
            /\ submitReq' = NoReq
       ELSE IF form.game = NoGame \/ form.score = 0
       THEN /\ rateGameMessage' = "required"
            /\ submitReq' = NoReq
       ELSE /\ submitReq' = Sent(token, <<"POST", form.game, form.score>>)
            /\ rateGameMessage' = rateGameMessage
    /\ UNCHANGED <<moreVars, siteVars, headerVars, serverVars, token, location, profileVars, pageVersion, urlGameId,
                   currentUserId, fetchReq, deleteReq, ratedRows, rowsStatus, form>>

\* submit of #rateGameForm, up to the fetch (ratings.html lines 498-540,
\* part_001 lines 714-756): PUT in edit mode, POST otherwise.
SubmitRating ==
    /\ location = "ratings" /\ RatingsIdle /\ ~form.hidden
    /\ handled' = NoHandled
    /\ IF ~HasToken(token)
       THEN /\ rateGameMessage' = "login"
            /\ submitReq' = NoReq
       ELSE IF form.game = NoGame \/ form.score = 0
       THEN /\ rateGameMessage' = "required"
            /\ submitReq' = NoReq
       ELSE /\ submitReq' = IF form.ratingId # 0
                            THEN Sent(token, <<"PUT", form.ratingId, form.score>>)
                            ELSE Sent(token, <<"POST", form.game, form.score>>)
            /\ rateGameMessage' = rateGameMessage
    /\ UNCHANGED <<moreVars, siteVars, headerVars, serverVars, token, location, profileVars, pageVersion, urlGameId,
                   currentUserId, fetchReq, deleteReq, ratedRows, rowsStatus, form>>

\* the backend answers the submit request
ServeSubmit ==
    /\ submitReq.stage = "sent"
    /\ LET a == submitReq.arg IN
       \E o \in (IF a[1] = "PUT" THEN update_rating(submitReq.token, a[2], a[3])
                 ELSE create_rating(submitReq.token, a[2], a[3])) :
          /\ Answer(IF a[1] = "PUT" THEN "update" ELSE "create",
                    submitReq.token, <<a[2]>>, o)
          /\ submitReq' = Served(submitReq, o)
    /\ UNCHANGED <<moreVars, siteVars, headerVars, browserVars, profileVars, pageVersion, urlGameId, currentUserId,
                   fetchReq, deleteReq, ratedRows, rowsStatus, form, rateGameMessage>>

\* The message a handler shows for a response that is not OK (status 0: the
\* catch branch).  Only 401 logs out.
FailureMessage(status, parsed) ==
    IF status = 0 \/ ~parsed THEN "unexpected"
    ELSE IF status = 409 THEN "already rated"
    ELSE "failed"

\* The game ratings are re-fetched for after a successful submit: the
\* game-specific list on ?game_id=, the user's list otherwise.
RefetchAfterSubmit(ver, g) == IF ver = "part_001" THEN g ELSE NoGame

\* the submit handler after the fetch (ratings.html lines 542-568, part_001
\* lines 758-796)
SubmitDone(status, parsed) ==
    /\ handled' = Handled("submit", submitReq, status, parsed)
    /\ IF status = 401 /\ parsed
       THEN RatingsLogout /\ LogoutHeader(pageVersion)
       ELSE /\ UNCHANGED headerVars
            /\ IF Ok(status)
               THEN LET g == RefetchAfterSubmit(pageVersion, urlGameId) IN
                    /\ rateGameMessage' = "success"
                    /\ FetchStart(pageVersion, token, g, EmptyForm(g, g # NoGame, form.hidden),
                                  Table(ratedRows, rowsStatus))
               ELSE /\ rateGameMessage' = FailureMessage(status, parsed)
                    /\ UNCHANGED <<fetchReq, ratedRows, rowsStatus, form>>
            /\ submitReq' = NoReq
            /\ UNCHANGED <<token, location, pageVersion, urlGameId, currentUserId, deleteReq>>
    /\ UNCHANGED <<moreVars, siteVars, serverVars, profileVars>>

SubmitResponse(parsed) ==
    /\ submitReq.stage = "served"
    /\ ~Ok(submitReq.status) \/ parsed
    /\ SubmitDone(submitReq.status, parsed)

SubmitNetworkError ==
    /\ submitReq.stage \in {"sent", "served"}
    /\ SubmitDone(0, FALSE)

\* click on the Delete button of row r, confirmed: deleteRating up to the
\* fetch (ratings.html lines 571-588, part_001 lines 799-816)
ClickDelete(r) ==
    /\ location = "ratings" /\ RatingsIdle
    /\ r \in ratedRows
    /\ r.controls
    /\ handled' = NoHandled
    /\ IF ~HasToken(token)
       THEN /\ rateGameMessage' = "login"
            /\ deleteReq' = NoReq
       ELSE /\ deleteReq' = Sent(token, <<r.id>>)
            /\ rateGameMessage' = rateGameMessage
    /\ UNCHANGED <<moreVars, siteVars, headerVars, serverVars, token, location, profileVars, pageVersion, urlGameId,
                   currentUserId, fetchReq, submitReq, ratedRows, rowsStatus, form>>

\* the backend answers the delete request
ServeDelete ==
    /\ deleteReq.stage = "sent"
    /\ \E o \in delete_rating(deleteReq.token, deleteReq.arg[1]) :
          /\ Answer("delete", deleteReq.token, deleteReq.arg, o)
          /\ deleteReq' = Served(deleteReq, o)
    /\ UNCHANGED <<moreVars, siteVars, headerVars, browserVars, profileVars, pageVersion, urlGameId, currentUserId,
                   fetchReq, submitReq, ratedRows, rowsStatus, form, rateGameMessage>>

\* deletedRatingWasForUrlGame of deleteRating (part_001 line 835)
deletedRatingWasForUrlGame(id, g) ==
    \E r \in allUserRatings : r.id = id /\ r.game = g

\* deleteRating after the fetch (ratings.html lines 590-606, part_001 lines
\* 818-863): on success part_001 resets the form and the URL when the rating
\* was the URL game's and fetches that game's ratings, and otherwise, like
\* ratings.html, fetches the user's ratings again.
DeleteDone(status, parsed) ==
    /\ handled' = Handled("delete", deleteReq, status, parsed)
    /\ IF status = 401
       THEN RatingsLogout /\ LogoutHeader(pageVersion)
       ELSE /\ UNCHANGED headerVars
            /\ IF Ok(status)
               THEN /\ rateGameMessage' = "deleted"
                    /\ IF /\ pageVersion = "part_001" /\ urlGameId # NoGame
                          /\ deletedRatingWasForUrlGame(deleteReq.arg[1], urlGameId)
                       THEN /\ urlGameId' = NoGame
                            /\ FetchStart(pageVersion, token, urlGameId,
                                          EmptyForm(urlGameId, TRUE, form.hidden),
                                          Table(ratedRows, rowsStatus))
                       ELSE /\ urlGameId' = urlGameId
                            /\ FetchStart(pageVersion, token, NoGame, form,
                                          Table(ratedRows, rowsStatus))
               ELSE /\ rateGameMessage' = IF parsed THEN "failed" ELSE "unexpected"
                    /\ UNCHANGED <<urlGameId, fetchReq, ratedRows, rowsStatus, form>>
            /\ deleteReq' = NoReq
            /\ UNCHANGED <<token, location, pageVersion, currentUserId, submitReq>>
    /\ UNCHANGED <<moreVars, siteVars, serverVars, profileVars>>

DeleteResponse(parsed) ==
    /\ deleteReq.stage = "served"
    /\ Ok(deleteReq.status) => parsed
    /\ DeleteDone(deleteReq.status, parsed)

DeleteNetworkError ==
    /\ deleteReq.stage \in {"sent", "served"}
    /\ DeleteDone(0, FALSE)

\* click on #logoutButton of the ratings page
RatingsClickLogout ==
    /\ location = "ratings"
    /\ HasToken(token)
    /\ RatingsLogout
    /\ LogoutHeader(pageVersion)
    /\ handled' = NoHandled
    /\ UNCHANGED <<moreVars, siteVars, serverVars, profileVars>>

(***************************************************************************)
(* Pages with a header and nothing else to model: register.html, the login *)
(* page (src/unnamed/part_003, "login.html"), backlog.html, and a page     *)
(* that includes main.js.                                                  *)
(***************************************************************************)
HeaderOnlyPages == {"register.html", "login.html", "backlog.html", "main.js"}

\* location while a page is shown
LocationOf(page) ==
    CASE page = "index.html" -> "index"
      [] page = "register.html" -> "register"
      [] page = "login.html" -> "login"
      [] page = "backlog.html" -> "backlog"
      [] page = "main.js" -> "main"
      [] page = "profile.html" -> "profile"
      [] OTHER -> "ratings"

\* the page whose script runs at a location
PageAt(loc) ==
    CASE loc = "index" -> "index.html"
      [] loc = "register" -> "register.html"
      [] loc = "login" -> "login.html"
      [] loc = "backlog" -> "backlog.html"
      [] OTHER -> "main.js"

\* logout() of a page: the token is removed and the browser goes to the
\* login page
SiteLogout(page) ==
    /\ token' = NoToken
    /\ location' = "login"
    /\ LogoutHeader(page)
    /\ SiteUnload

\* DOMContentLoaded of a page whose handler is checkLoginStatus
LoadHeaderPage(page) ==
    /\ page \in HeaderOnlyPages
    /\ LET c == checkLoginStatus(page, token, HeaderMarkup) IN
       /\ header' = c.header
       /\ loginStatus' = Checked(page, c)
       /\ token' = c.token
       /\ location' = IF c.left THEN "login" ELSE LocationOf(page)
    /\ handled' = NoHandled
    /\ ProfileUnload
    /\ RatingsUnload
    /\ SiteUnload
    /\ UNCHANGED <<idleVars, serverVars, catalog>>

\* click on #logoutButton, on a page that shows it
SiteClickLogout ==
    /\ location \in {"index", "register", "login", "backlog", "main"}
    /\ header.logoutShown
    /\ SiteLogout(PageAt(location))
    /\ handled' = NoHandled
    /\ UNCHANGED <<idleVars, serverVars, catalog, profileVars, ratingsPageVars>>

(***************************************************************************)
(* Login form: src/unnamed/part_003 and the login document of backlog.html *)
(***************************************************************************)
\* backend: POST /auth/token answers good credentials with a bearer token of
\* the user
auth_token(u, good) ==
    IF good THEN {Unchanged(200, {[sub |-> u, kind |-> "valid"]})}
    ELSE {Unchanged(401, {})}

\* submit of #loginForm, up to the fetch: u is the username typed (NoUser:
\* the username or the password is empty), good whether the backend accepts
\* the credentials
LoginSubmit(u, good) ==
    /\ location \in {"login", "backlog"}
    /\ loginReq.stage = "none"
    /\ IF u = NoUser
       THEN /\ loginMessage' = "enter both"
            /\ loginReq' = NoReq
       ELSE /\ loginReq' = Sent(NoToken, <<u, good>>)
            /\ loginMessage' = loginMessage
    /\ handled' = NoHandled
    /\ UNCHANGED <<moreVars, serverVars, catalog, token, location, headerVars, profileVars,
                   ratingsPageVars, indexVars, basicVars>>

\* the backend answers the login request
ServeLogin ==
    /\ loginReq.stage = "sent"
    /\ \E o \in auth_token(loginReq.arg[1], loginReq.arg[2]) :
          /\ Answer("login", NoToken, <<loginReq.arg[1]>>, o)
          /\ loginReq' = Served(loginReq, o)
    /\ UNCHANGED <<moreVars, catalog, browserVars, headerVars, profileVars, ratingsPageVars,
                   loginMessage, indexVars, basicVars>>

\* TokenAfterLogin that does not look at response.ok: the access_token of an
\* error body is undefined, and the string stored does not decode
TokenAfterLogin_NoOkCheck(t, status, parsed, body) ==
    IF ~parsed THEN t
    ELSE IF body # {} THEN CHOOSE a \in body : TRUE ELSE MalformedToken

\* the token localStorage holds after the login handler handled a response:
\* the access_token of an OK response that parsed (undefined, stored as a
\* string that does not decode, when the body has none), else the one it held
TokenAfterLogin(t, status, parsed, body) ==
    IF ~(Ok(status) /\ parsed) THEN t
    ELSE IF body # {} THEN CHOOSE a \in body : TRUE ELSE MalformedToken

\* the submit handler of #loginForm after the fetch: status 0 is a rejected
\* fetch
LoginDone(status, parsed) ==
    /\ handled' = NoHandled
    /\ token' = TokenAfterLogin(token, status, parsed, loginReq.body)
    /\ loginMessage' = IF status = 0 \/ ~parsed THEN "unexpected"
                       ELSE IF Ok(status) THEN "success"
                       ELSE "failed"
    /\ loginReq' = NoReq
    /\ UNCHANGED <<moreVars, serverVars, catalog, location, headerVars, profileVars, ratingsPageVars,
                   indexVars, basicVars>>

LoginResponse(parsed) ==
    /\ loginReq.stage = "served"
    /\ LoginDone(loginReq.status, parsed)

\* fetch() of /auth/token rejects
LoginNetworkError ==
    /\ loginReq.stage \in {"sent", "served"}
    /\ LoginDone(0, FALSE)

(***************************************************************************)
(* Game list page: static/index.html.  One add or delete request is in     *)
(* flight at a time, and at most two list requests.                        *)
(***************************************************************************)
Titles == {"t1"}          \* titles the user types into #game_name
NoTitle == ""

\* backend: GET /games/
list_games(t) ==
    IF TokenUser(t) = NoUser THEN AuthFailure ELSE {Unchanged(200, catalog)}

\* backend: POST /games/?title= looks the title up and stores the game, or
\* fails; the outcome and the catalogue after
add_game(t, title) ==
    IF TokenUser(t) = NoUser
    THEN {[o |-> a, catalog |-> catalog] : a \in AuthFailure}
    ELSE {[o |-> Unchanged(200, {title}), catalog |-> catalog \cup {title}],
          [o |-> Unchanged(404, {}), catalog |-> catalog]}

\* backend: DELETE /games/{id}
delete_game(t, title) ==
    IF TokenUser(t) = NoUser
    THEN {[o |-> a, catalog |-> catalog] : a \in AuthFailure}
    ELSE IF title \in catalog
    THEN {[o |-> Unchanged(200, {}), catalog |-> catalog \ {title}]}
    ELSE {[o |-> Unchanged(404, {}), catalog |-> catalog]}

IndexIdle ==
    /\ gamesReq.stage = "none"
    /\ addGameReq.stage = "none"
    /\ deleteGameReq.stage = "none"

\* the user acts while one list request is still in flight
ListPending ==
    /\ gamesReq.stage # "none"
    /\ earlierGamesReq.stage = "none"
    /\ addGameReq.stage = "none"
    /\ deleteGameReq.stage = "none"

\* fetchGames, up to the fetch (lines 161-177), on the rows the table shows
\* and the list requests of the page that are in flight: an earlier call is
\* neither awaited nor cancelled
fetchGames(t, rows, pending, earlier) ==
    IF ~HasToken(t)
    THEN /\ gamesReq' = pending
         /\ earlierGamesReq' = earlier
         /\ gameRows' = {}
    ELSE /\ gamesReq' = Sent(t, <<>>)
         /\ earlierGamesReq' = IF pending.stage = "none" THEN earlier ELSE pending
         /\ gameRows' = rows

\* DOMContentLoaded of index.html: checkLoginStatus(), then fetchGames()
LoadIndexPage ==
    /\ LET c == checkLoginStatus("index.html", token, HeaderMarkup) IN
       /\ header' = c.header
       /\ loginStatus' = Checked("index.html", c)
       /\ token' = c.token
       /\ location' = IF c.left THEN "login" ELSE "index"
       /\ IF c.left
          THEN /\ gamesReq' = NoReq
               /\ earlierGamesReq' = NoReq
               /\ gameRows' = {}
          ELSE fetchGames(c.token, {}, NoReq, NoReq)
    /\ handled' = NoHandled
    /\ addGameReq' = NoReq
    /\ deleteGameReq' = NoReq
    /\ addGameMessage' = ""
    /\ ProfileUnload
    /\ RatingsUnload
    /\ LoginUnload
    /\ BasicUnload
    /\ RegisterUnload
    /\ UNCHANGED <<idleVars, serverVars, catalog>>

\* the backend answers the request of fetchGames
ServeGames ==
    /\ gamesReq.stage = "sent"
    /\ \E o \in list_games(gamesReq.token) :
          /\ Answer("listGames", gamesReq.token, <<>>, o)
          /\ gamesReq' = Served(gamesReq, o)
    /\ UNCHANGED <<moreVars, catalog, browserVars, headerVars, profileVars, ratingsPageVars,
                   loginVars, earlierGamesReq, addGameReq, deleteGameReq, gameRows,
                   addGameMessage, basicVars>>

\* the backend answers the earlier request of fetchGames
ServeEarlierGames ==
    /\ earlierGamesReq.stage = "sent"
    /\ \E o \in list_games(earlierGamesReq.token) :
          /\ Answer("listGames", earlierGamesReq.token, <<>>, o)
          /\ earlierGamesReq' = Served(earlierGamesReq, o)
    /\ UNCHANGED <<moreVars, catalog, browserVars, headerVars, profileVars, ratingsPageVars,
                   loginVars, gamesReq, addGameReq, deleteGameReq, gameRows,
                   addGameMessage, basicVars>>

\* fetchGames after the fetch (lines 178-196), for the call whose request is
\* req (earlier: the one in earlierGamesReq): status 0 is a rejected fetch;
\* only 401 logs out; an OK response is displayed whichever call it answers
GamesDoneOf(req, earlier, status, parsed) ==
    /\ handled' = NoHandled
    /\ IF status = 401
       THEN SiteLogout("index.html")
       ELSE /\ gameRows' = IF Ok(status) /\ parsed THEN req.body ELSE gameRows
            /\ addGameMessage' = IF status = 0 \/ ~parsed THEN "unexpected"
                                 ELSE IF Ok(status) THEN addGameMessage
                                 ELSE "failed to fetch"
            /\ gamesReq' = IF earlier THEN gamesReq ELSE NoReq
            /\ earlierGamesReq' = IF earlier THEN NoReq ELSE earlierGamesReq
            /\ UNCHANGED <<token, location, headerVars, loginVars, addGameReq,
                           deleteGameReq, basicVars, registerVars>>
    /\ UNCHANGED <<idleVars, serverVars, catalog, profileVars, ratingsPageVars>>

GamesDone(status, parsed) == GamesDoneOf(gamesReq, FALSE, status, parsed)

GamesResponse(parsed) ==
    /\ gamesReq.stage = "served"
    /\ GamesDone(gamesReq.status, parsed)

GamesNetworkError ==
    /\ gamesReq.stage \in {"sent", "served"}
    /\ GamesDone(0, FALSE)

\* the earlier call of fetchGames gets its response
EarlierGamesResponse(parsed) ==
    /\ earlierGamesReq.stage = "served"
    /\ GamesDoneOf(earlierGamesReq, TRUE, earlierGamesReq.status, parsed)

EarlierGamesNetworkError ==
    /\ earlierGamesReq.stage \in {"sent", "served"}
    /\ GamesDoneOf(earlierGamesReq, TRUE, 0, FALSE)

\* AddGame without the check of the stored token
AddGame_NoTokenCheck(title) ==
    /\ location = "index" /\ IndexIdle
    /\ handled' = NoHandled
    /\ IF title = NoTitle
       THEN /\ addGameMessage' = "required"
            /\ addGameReq' = NoReq
       ELSE /\ addGameReq' = Sent(token, <<title>>)
            /\ addGameMessage' = addGameMessage
    /\ UNCHANGED <<moreVars, serverVars, catalog, token, location, headerVars, profileVars,
                   ratingsPageVars, loginVars, gamesReq, earlierGamesReq, deleteGameReq,
                   gameRows, basicVars>>

\* submit of #addGameForm, up to the fetch (lines 200-225), in a state where
\* the user submits
AddGameWhen(ready, title) ==
    /\ location = "index" /\ ready
    /\ handled' = NoHandled
    /\ IF ~HasToken(token)
       THEN /\ addGameMessage' = "login"
            /\ addGameReq' = NoReq
       ELSE IF title = NoTitle
       THEN /\ addGameMessage' = "required"
            /\ addGameReq' = NoReq
       ELSE /\ addGameReq' = Sent(token, <<title>>)
            /\ addGameMessage' = addGameMessage
    /\ UNCHANGED <<moreVars, serverVars, catalog, token, location, headerVars, profileVars,
                   ratingsPageVars, loginVars, gamesReq, earlierGamesReq, deleteGameReq,
                   gameRows, basicVars>>

\* submit of #addGameForm once every request of the page was answered
AddGame(title) == AddGameWhen(IndexIdle, title)

\* submit of #addGameForm while a list request is in flight
AddGameEarly(title) == AddGameWhen(ListPending, title)

\* the backend answers the add request
ServeAddGame ==
    /\ addGameReq.stage = "sent"
    /\ \E a \in add_game(addGameReq.token, addGameReq.arg[1]) :
          /\ Answer("addGame", addGameReq.token, addGameReq.arg, a.o)
          /\ catalog' = a.catalog
          /\ addGameReq' = Served(addGameReq, a.o)
    /\ UNCHANGED <<moreVars, browserVars, headerVars, profileVars, ratingsPageVars, loginVars,
                   gamesReq, earlierGamesReq, deleteGameReq, gameRows, addGameMessage,
                   basicVars>>

\* the add handler after the fetch (lines 227-236): a response that is not
\* OK is a message, never a logout; an OK response refreshes the list
AddGameDone(status, parsed) ==
    /\ handled' = NoHandled
    /\ IF Ok(status)
       THEN /\ addGameMessage' = "added"
            /\ fetchGames(token, gameRows, gamesReq, earlierGamesReq)
       ELSE /\ addGameMessage' = IF status = 0 \/ ~parsed THEN "unexpected"
                                 ELSE "failed to add"
            /\ UNCHANGED <<gamesReq, earlierGamesReq, gameRows>>
    /\ addGameReq' = NoReq
    /\ UNCHANGED <<moreVars, serverVars, catalog, token, location, headerVars, profileVars,
                   ratingsPageVars, loginVars, deleteGameReq, basicVars>>

AddGameResponse(parsed) ==
    /\ addGameReq.stage = "served"
    /\ AddGameDone(addGameReq.status, parsed)

AddGameNetworkError ==
    /\ addGameReq.stage \in {"sent", "served"}
    /\ AddGameDone(0, FALSE)

\* deleteGame(gameId) of a row, up to the fetch (lines 239-257), when the
\* user confirms, in a state where the user clicks
DeleteGameWhen(ready, title) ==
    /\ location = "index" /\ ready
    /\ title \in gameRows
    /\ handled' = NoHandled
    /\ IF ~HasToken(token)
       THEN /\ addGameMessage' = "login"
            /\ deleteGameReq' = NoReq
       ELSE /\ deleteGameReq' = Sent(token, <<title>>)
            /\ addGameMessage' = addGameMessage
    /\ UNCHANGED <<moreVars, serverVars, catalog, token, location, headerVars, profileVars,
                   ratingsPageVars, loginVars, gamesReq, earlierGamesReq, addGameReq,
                   gameRows, basicVars>>

\* Delete clicked once every request of the page was answered
DeleteGame(title) == DeleteGameWhen(IndexIdle, title)

\* Delete clicked while a list request is in flight
DeleteGameEarly(title) == DeleteGameWhen(ListPending, title)

\* the backend answers the delete request
ServeDeleteGame ==
    /\ deleteGameReq.stage = "sent"
    /\ \E a \in delete_game(deleteGameReq.token, deleteGameReq.arg[1]) :
          /\ Answer("deleteGame", deleteGameReq.token, deleteGameReq.arg, a.o)
          /\ catalog' = a.catalog
          /\ deleteGameReq' = Served(deleteGameReq, a.o)
    /\ UNCHANGED <<moreVars, browserVars, headerVars, profileVars, ratingsPageVars, loginVars,
                   gamesReq, earlierGamesReq, addGameReq, gameRows, addGameMessage,
                   basicVars>>

\* deleteGame after the fetch (lines 259-272)
DeleteGameDone(status, parsed) ==
    /\ handled' = NoHandled
    /\ IF Ok(status)
       THEN /\ addGameMessage' = "deleted"
            /\ fetchGames(token, gameRows, gamesReq, earlierGamesReq)
       ELSE /\ addGameMessage' = IF status = 0 \/ ~parsed THEN "unexpected"
                                 ELSE "failed to delete"
            /\ UNCHANGED <<gamesReq, earlierGamesReq, gameRows>>
    /\ deleteGameReq' = NoReq
    /\ UNCHANGED <<moreVars, serverVars, catalog, token, location, headerVars, profileVars,
                   ratingsPageVars, loginVars, addGameReq, basicVars>>

DeleteGameResponse(parsed) ==
    /\ deleteGameReq.stage = "served"
    /\ DeleteGameDone(deleteGameReq.status, parsed)

DeleteGameNetworkError ==
    /\ deleteGameReq.stage \in {"sent", "served"}
    /\ DeleteGameDone(0, FALSE)

(***************************************************************************)
(* Rating page of one game: static/rating.html.  The page has no header    *)
(* and does not call checkLoginStatus.                                     *)
(***************************************************************************)
\* What #rating holds at submit: nothing, or a number typed.
EmptyInput == [typed |-> FALSE, value |-> 0]
Typed(n) == [typed |-> TRUE, value |-> n]
RatingInputs == {EmptyInput, Typed(0), Typed(1), Typed(9), Typed(10), Typed(11)}

\* ValidRatingInput without the upper limit
ValidRatingInput_NoMax(in) == in.typed /\ in.value >= 1

\* the check of the submit handler (line 155): !rating || rating < 1 || rating > 10
ValidRatingInput(in) == in.typed /\ in.value >= 1 /\ in.value <= 10

\* DOMContentLoaded of rating.html (lines 89-141): without ?game_id= the
\* handler returns before it lists the ratings and before it attaches the
\* submit handler
BasicStart(g) ==
    /\ basicGameId' = g
    /\ ratingReq' = NoReq
    /\ IF g = NoGame
       THEN /\ listReq' = NoReq
            /\ basicTable' = BasicTable("no game id", {})
       ELSE /\ listReq' = Sent(NoToken, <<g>>)
            /\ basicTable' = BasicTable("markup", {})

LoadBasicPage(g) ==
    /\ location' = "rating"
    /\ BasicStart(g)
    /\ basicAlert' = ""
    /\ handled' = NoHandled
    /\ ProfileUnload
    /\ RatingsUnload
    /\ LoginUnload
    /\ IndexUnload
    /\ RegisterUnload
    /\ header' = HeaderMarkup
    /\ loginStatus' = NotChecked
    /\ UNCHANGED <<idleVars, serverVars, catalog, token>>

\* the backend answers the list request of rating.html
ServeList ==
    /\ listReq.stage = "sent"
    /\ \E o \in list_game_ratings(listReq.arg[1]) :
          /\ Answer("listGame", NoToken, listReq.arg, o)
          /\ listReq' = Served(listReq, o)
    /\ UNCHANGED <<moreVars, catalog, browserVars, headerVars, profileVars, ratingsPageVars,
                   loginVars, indexVars, basicGameId, ratingReq, basicTable, basicAlert>>

\* the then/catch chain of the list request (lines 111-138)
ListDone(status, parsed) ==
    /\ handled' = NoHandled
    /\ IF Ok(status) /\ parsed
       THEN /\ basicTable' = BasicTable("rows", listReq.body)
            /\ basicAlert' = basicAlert
       ELSE /\ basicTable' = BasicTable("error", {})
            /\ basicAlert' = "failed to fetch"
    /\ listReq' = NoReq
    /\ UNCHANGED <<moreVars, serverVars, catalog, token, location, headerVars, profileVars,
                   ratingsPageVars, loginVars, indexVars, basicGameId, ratingReq>>

ListResponse(parsed) ==
    /\ listReq.stage = "served"
    /\ ListDone(listReq.status, parsed)

ListNetworkError ==
    /\ listReq.stage \in {"sent", "served"}
    /\ ListDone(0, FALSE)

\* submit of #ratings-form, up to the fetch (lines 143-172); the handler is
\* attached only when the URL has a game_id
BasicSubmit(in) ==
    /\ location = "rating"
    /\ basicGameId # NoGame
    /\ ratingReq.stage = "none"
    /\ handled' = NoHandled
    /\ IF ~HasToken(token)
       THEN /\ basicAlert' = "login"
            /\ ratingReq' = NoReq
       ELSE IF ~ValidRatingInput(in)
       THEN /\ basicAlert' = "valid rating"
            /\ ratingReq' = NoReq
       ELSE /\ ratingReq' = Sent(token, <<"POST", basicGameId, in.value>>)
            /\ basicAlert' = basicAlert
    /\ UNCHANGED <<moreVars, serverVars, catalog, token, location, headerVars, profileVars,
                   ratingsPageVars, loginVars, indexVars, basicGameId, listReq,
                   basicTable>>

\* the backend answers the submit request of rating.html
ServeBasicSubmit ==
    /\ ratingReq.stage = "sent"
    /\ \E o \in create_rating(ratingReq.token, ratingReq.arg[2], ratingReq.arg[3]) :
          /\ Answer("create", ratingReq.token, <<ratingReq.arg[2]>>, o)
          /\ ratingReq' = Served(ratingReq, o)
    /\ UNCHANGED <<moreVars, catalog, browserVars, headerVars, profileVars, ratingsPageVars,
                   loginVars, indexVars, basicGameId, listReq, basicTable, basicAlert>>

\* the then/catch chain of the submit request (lines 173-190): an OK
\* response reloads the page, every other one is an alert
BasicSubmitDone(status, parsed) ==
    /\ handled' = NoHandled
    /\ IF Ok(status)
       THEN /\ basicAlert' = "submitted"
            /\ BasicStart(basicGameId)
       ELSE /\ basicAlert' = IF status \in {401, 403} THEN "unauthorized"
                             ELSE IF status = 0 \/ ~parsed THEN "error"
                             ELSE "failed to submit"
            /\ ratingReq' = NoReq
            /\ UNCHANGED <<basicGameId, listReq, basicTable>>
    /\ UNCHANGED <<moreVars, serverVars, catalog, token, location, headerVars, profileVars,
                   ratingsPageVars, loginVars, indexVars>>

BasicSubmitResponse(parsed) ==
    /\ ratingReq.stage = "served"
    /\ BasicSubmitDone(ratingReq.status, parsed)

BasicSubmitNetworkError ==
    /\ ratingReq.stage \in {"sent", "served"}
    /\ BasicSubmitDone(0, FALSE)

(***************************************************************************)
(* Registration: static/register.html                                      *)
(***************************************************************************)
MinPasswordLength == 8    \* password.length < 8 is rejected by the form
\* what the user types: texts are sequences of characters
Chars(n, c) == [i \in 1..n |-> c]
UsernameInputs == {<<>>, <<" ">>, <<"c">>, <<" ", "c", " ">>}
EmailInputs == {<<>>, <<" ", " ">>, <<"e">>}
PasswordInputs == {<<>>, Chars(MinPasswordLength - 1, "x"), Chars(MinPasswordLength, "x"),
                   Chars(MinPasswordLength, " ")}

\* String.prototype.trim
RECURSIVE TrimLeft(_)
TrimLeft(text) ==
    IF text # <<>> /\ Head(text) = " " THEN TrimLeft(Tail(text)) ELSE text
RECURSIVE TrimRight(_)
TrimRight(text) ==
    IF text # <<>> /\ text[Len(text)] = " "
    THEN TrimRight(SubSeq(text, 1, Len(text) - 1)) ELSE text
Trim(text) == TrimRight(TrimLeft(text))

\* backend: POST /users/ creates the user unless the username is taken
create_user(username) ==
    IF username \in accounts THEN [status |-> 400, accounts |-> accounts]
    ELSE [status |-> 200, accounts |-> accounts \cup {username}]

\* the body of the registration request
RegisterPayload(username, email, password) ==
    <<username, email, password, FALSE>>

\* submit of #registerForm that does not check the password's length
RegisterSubmit_NoLengthCheck(u, e, p) ==
    /\ location = "register"
    /\ registerReq.stage = "none"
    /\ LET username == Trim(u)
           email == Trim(e) IN
       IF username = <<>> \/ email = <<>> \/ p = <<>>
       THEN /\ registerMessage' = "required"
            /\ registerReq' = NoReq
       ELSE /\ registerReq' = Sent(NoToken, RegisterPayload(username, email, p))
            /\ registerMessage' = registerMessage
    /\ handled' = NoHandled
    /\ UNCHANGED <<idleVars, serverVars, siteVars, token, location, headerVars,
                   profileVars, ratingsPageVars>>

\* submit of #registerForm, up to the fetch (lines 129-169): u, e and p are
\* the texts typed as username, email and password
RegisterSubmit(u, e, p) ==
    /\ location = "register"
    /\ registerReq.stage = "none"
    /\ LET username == Trim(u)
           email == Trim(e) IN
       IF username = <<>> \/ email = <<>> \/ p = <<>>
       THEN /\ registerMessage' = "required"
            /\ registerReq' = NoReq
       ELSE IF Len(p) < MinPasswordLength
       THEN /\ registerMessage' = "short password"
            /\ registerReq' = NoReq
       ELSE /\ registerReq' = Sent(NoToken, RegisterPayload(username, email, p))
            /\ registerMessage' = registerMessage
    /\ handled' = NoHandled
    /\ UNCHANGED <<idleVars, serverVars, siteVars, token, location, headerVars,
                   profileVars, ratingsPageVars>>

\* the backend answers the registration request
ServeRegister ==
    /\ registerReq.stage = "sent"
    /\ LET o == create_user(registerReq.arg[1]) IN
       /\ accounts' = o.accounts
       /\ registerReq' = [registerReq EXCEPT !.stage = "served", !.status = o.status]
    /\ UNCHANGED <<messageVars, starCase, serverVars, siteVars, browserVars, headerVars,
                   profileVars, ratingsPageVars, registerMessage>>

\* the submit handler after the fetch (lines 171-186): status 0 is a rejected
\* fetch; after a success the form is reset and the browser goes to the
\* login page 2 seconds later
RegisterDone(status, parsed) ==
    /\ handled' = NoHandled
    /\ registerMessage' = IF status = 0 THEN "unexpected"
                          ELSE IF Ok(status) THEN "success"
                          ELSE IF parsed THEN "failed"
                          ELSE "unexpected"
    /\ registerReq' = IF Ok(status) THEN [NoReq EXCEPT !.stage = "redirecting"]
                      ELSE NoReq
    /\ UNCHANGED <<idleVars, serverVars, siteVars, token, location, headerVars,
                   profileVars, ratingsPageVars>>

RegisterResponse(parsed) ==
    /\ registerReq.stage = "served"
    /\ RegisterDone(registerReq.status, parsed)

\* fetch() of /users/ rejects
RegisterNetworkError ==
    /\ registerReq.stage \in {"sent", "served"}
    /\ RegisterDone(0, FALSE)

\* the setTimeout callback after a successful registration (lines 179-181)
RegisterRedirect ==
    /\ location = "register"
    /\ registerReq.stage = "redirecting"
    /\ LoadHeaderPage("login.html")

(***************************************************************************)
(* showMessage (index.html lines 71-79, ratings.html lines 266-276)        *)
(***************************************************************************)
HideDelay == 5            \* seconds of the setTimeout of showMessage
MaxClock == 12            \* seconds the page is followed for
MessageTexts == {"first", "second"}

\* showMessage(element, message, type): the element shows the message and a
\* callback that hides the element is scheduled; no earlier callback is
\* cancelled
showMessage(text) ==
    /\ messageElement' = [text |-> text, display |-> "block"]
    /\ hideTimers' = hideTimers \cup {clock + HideDelay}
    /\ shownAt' = clock
    /\ UNCHANGED <<serverVars, browserVars, headerVars, profileVars, ratingsPageVars,
                   siteVars, clock, starCase, accounts, registerVars>>

\* a setTimeout callback that is due runs: element.style.display = 'none'
HideTimerFires ==
    /\ \E due \in hideTimers :
          /\ due <= clock
          /\ hideTimers' = hideTimers \ {due}
    /\ messageElement' = [messageElement EXCEPT !.display = "none"]
    /\ UNCHANGED <<serverVars, browserVars, headerVars, profileVars, ratingsPageVars,
                   siteVars, clock, shownAt, starCase, accounts, registerVars>>

\* a second passes; the callbacks that are due have run
Tick ==
    /\ clock < MaxClock
    /\ \A due \in hideTimers : due > clock
    /\ clock' = clock + 1
    /\ UNCHANGED <<serverVars, browserVars, headerVars, profileVars, ratingsPageVars,
                   siteVars, messageElement, hideTimers, shownAt, starCase, accounts,
                   registerVars>>

(***************************************************************************)
(* Star widget: convertStarsToBackendRating and renderStars of ratings.html *)
(***************************************************************************)
\* a row of the table is rendered for a rating r the backend returned
\* (ratings.html line 435: renderStars(rating.rating, ..., false))
DisplayRating(r) ==
    /\ starCase' = [starCase EXCEPT !.rating = r, !.rowFilled = renderStars(r, FALSE),
                                    !.fromStars = 0]
    /\ UNCHANGED <<serverVars, browserVars, headerVars, profileVars, ratingsPageVars,
                   siteVars, messageVars, accounts, registerVars>>

\* mouseover on star v of #starRatingInput (lines 369-379)
HoverStar(v) ==
    /\ starCase' = [starCase EXCEPT !.hovered = v]
    /\ UNCHANGED <<serverVars, browserVars, headerVars, profileVars, ratingsPageVars,
                   siteVars, messageVars, accounts, registerVars>>

\* mouseout (lines 381-385): the hover marks go and the widget is rendered
\* again from currentStarRating
MouseOutStar ==
    /\ starCase.hovered # 0
    /\ starCase' = [starCase EXCEPT !.hovered = 0,
                                    !.inputFilled = renderStars(starCase.stars, TRUE)]
    /\ UNCHANGED <<serverVars, browserVars, headerVars, profileVars, ratingsPageVars,
                   siteVars, messageVars, accounts, registerVars>>

\* click on star v (lines 387-393)
ClickStarValue(v) ==
    /\ starCase' = [starCase EXCEPT !.stars = v,
                                    !.score = convertStarsToBackendRating(v),
                                    !.hovered = 0,
                                    !.inputFilled = renderStars(v, TRUE)]
    /\ UNCHANGED <<serverVars, browserVars, headerVars, profileVars, ratingsPageVars,
                   siteVars, messageVars, accounts, registerVars>>

\* the rating of the widget is stored and its row rendered from what the
\* backend returns: the score that was sent
StoreStarRating ==
    /\ starCase.stars # 0
    /\ starCase' = [starCase EXCEPT !.rating = starCase.score,
                                    !.rowFilled = renderStars(starCase.score, FALSE),
                                    !.fromStars = starCase.stars]
    /\ UNCHANGED <<serverVars, browserVars, headerVars, profileVars, ratingsPageVars,
                   siteVars, messageVars, accounts, registerVars>>

(***************************************************************************)
(* Specifications                                                          *)
(***************************************************************************)
\* The user at the browser is alice; bob is another user.
BrowserUser == "alice"
BrowserTokens ==
    {[sub |-> BrowserUser, kind |-> "valid"], [sub |-> BrowserUser, kind |-> "expired"],
     MalformedToken, NoToken}
OtherTokens == {[sub |-> "bob", kind |-> "valid"]}
ApiTokens == ValidTokens \cup {[sub |-> BrowserUser, kind |-> "expired"], MalformedToken}

InitPages(audit) ==
    /\ ratings = {}
    /\ nextRatingId = 1
    /\ recCache = [u \in Users |-> NoCache]
    /\ srv = audit
    /\ deletedPairs = {}
    /\ token \in BrowserTokens
    /\ location = "login"
    /\ handled = NoHandled
    /\ header = HeaderMarkup
    /\ loginStatus = NotChecked
    /\ recReq = ProfileMarkup.recReq
    /\ infoReq = ProfileMarkup.infoReq
    /\ container = ProfileMarkup.container
    /\ recStatus = ProfileMarkup.recStatus
    /\ generateButton = ProfileMarkup.generateButton
    /\ profileInfo = ProfileMarkup.profileInfo
    /\ pageVersion = "ratings.html"
    /\ urlGameId = NoGame
    /\ currentUserId = NoUser
    /\ fetchReq = NoReq
    /\ submitReq = NoReq
    /\ deleteReq = NoReq
    /\ ratedRows = {}
    /\ rowsStatus = 0
    /\ form = EmptyForm(NoGame, FALSE, FALSE)
    /\ rateGameMessage = ""
    /\ catalog = {}
    /\ loginReq = NoReq
    /\ loginMessage = ""
    /\ gamesReq = NoReq
    /\ earlierGamesReq = NoReq
    /\ addGameReq = NoReq
    /\ deleteGameReq = NoReq
    /\ gameRows = {}
    /\ addGameMessage = ""
    /\ basicGameId = ""
    /\ listReq = NoReq
    /\ ratingReq = NoReq
    /\ basicTable = BasicTable("markup", {})
    /\ basicAlert = ""
    /\ clock = 0
    /\ messageElement = NoMessage
    /\ hideTimers = {}
    /\ shownAt = -1
    /\ accounts = {}
    /\ registerReq = NoReq
    /\ registerMessage = ""

\* every page as it is after construction, the star widget untouched
InitWith(audit) == InitPages(audit) /\ starCase = NoStarCase

\* the table shows a row with a rating r the backend holds
InitStars ==
    /\ InitPages(NoAudit)
    /\ \E r \in 0..MaxBackendRating :
          starCase = [NoStarCase EXCEPT !.rating = r, !.rowFilled = renderStars(r, FALSE)]

Init == InitWith(NoTxn)

\* the browser between pages
NextBrowser ==
    \/ Login(BrowserUser)
    \/ TokenExpires

\* the profile page and its backend
NextProfile ==
    \/ LoadProfilePage
    \/ ClickGenerate
    \/ ServeRec
    \/ \E parsed \in BOOLEAN : RecResponse(parsed)
    \/ RecNetworkError
    \/ ServeInfo
    \/ \E parsed \in BOOLEAN : InfoResponse(parsed)
    \/ InfoNetworkError
    \/ ProfileClickLogout

\* the ratings page and its backend
NextRatings ==
    \/ \E ver \in PageVersions, g \in Games \cup {NoGame} : LoadRatingsPage(ver, g)
    \/ ServeFetch
    \/ \E parsed \in BOOLEAN : FetchResponse(parsed)
    \/ FetchNetworkError
    \/ \E n \in StarChoices : ClickStar(n)
    \/ \E g \in Games : SelectGame(g)
    \/ \E r \in ratedRows : ClickEdit(r)
    \/ SubmitRating
    \/ ServeSubmit
    \/ \E parsed \in BOOLEAN : SubmitResponse(parsed)
    \/ SubmitNetworkError
    \/ \E r \in ratedRows : ClickDelete(r)
    \/ ServeDelete
    \/ \E parsed \in BOOLEAN : DeleteResponse(parsed)
    \/ DeleteNetworkError
    \/ RatingsClickLogout

\* requests of other clients to the rating endpoints, with tokens T
NextOtherRatings(T) ==
    \/ \E t \in T, g \in Games, v \in Scores : OtherCreateRating(t, g, v)
    \/ \E t \in T, id \in 1..MaxRatingId, v \in Scores : OtherUpdateRating(t, id, v)
    \/ \E t \in T, id \in 1..MaxRatingId : OtherDeleteRating(t, id)

\* list requests of other clients
NextOtherLists(T) ==
    \/ \E t \in T : OtherListUserRatings(t)
    \/ \E g \in Games : OtherListGameRatings(g)

\* requests of other clients to the recommendations endpoint
NextOtherRecs(T) ==
    \E t \in T, force \in BOOLEAN : OtherRecommendations(t, force)

\* from other clients, users rate and unrate one game
NextOtherRates(T) ==
    \/ \E t \in T : OtherCreateRating(t, "g1", 4)
    \/ \E t \in T, id \in 1..MaxRatingId : OtherDeleteRating(t, id)

\* the browser user rates a game on another page: rating.html sends the
\* number typed, any value from 1 to 10
NextOwnRating ==
    OtherCreateRating([sub |-> BrowserUser, kind |-> "valid"], "g2", 9)

Next ==
    \/ NextBrowser \/ NextProfile \/ NextRatings
    \/ NextOtherRatings(Tokens) \/ NextOtherLists(Tokens) \/ NextOtherRecs(Tokens)
Spec == Init /\ [][Next]_vars

\* the rating endpoints under the requests of any clients
SpecRatingsApi ==
    Init /\ [][NextOtherRatings(ApiTokens) \/ NextOtherLists(ApiTokens)]_vars

\* the recommendations endpoint under the requests of any clients
SpecRecsApi == Init /\ [][NextOtherRecs(ApiTokens) \/ NextOtherRates(ValidTokens)]_vars

\* the profile page of the browser user, with its backend
SpecProfile ==
    Init /\ [][NextBrowser \/ NextProfile \/ NextOtherRates({[sub |-> BrowserUser, kind |-> "valid"]})]_vars

\* the ratings page of the browser user, with its backend and another user
SpecRatings ==
    InitWith(NoAudit) /\ [][NextBrowser \/ NextRatings \/ NextOtherRates(OtherTokens)
                             \/ NextOwnRating]_vars

\* the pages whose script is the header's
NextHeaderPages ==
    \/ \E page \in HeaderOnlyPages : LoadHeaderPage(page)
    \/ SiteClickLogout

\* the login form and its backend
NextLogin ==
    \/ \E u \in {BrowserUser, NoUser}, good \in BOOLEAN : LoginSubmit(u, good)
    \/ ServeLogin
    \/ \E parsed \in BOOLEAN : LoginResponse(parsed)
    \/ LoginNetworkError

\* the game list page and its backend
NextIndex ==
    \/ LoadIndexPage
    \/ ServeGames
    \/ \E parsed \in BOOLEAN : GamesResponse(parsed)
    \/ GamesNetworkError
    \/ \E title \in Titles \cup {NoTitle} : AddGame(title)
    \/ ServeAddGame
    \/ \E parsed \in BOOLEAN : AddGameResponse(parsed)
    \/ AddGameNetworkError
    \/ \E title \in Titles : DeleteGame(title)
    \/ ServeDeleteGame
    \/ \E parsed \in BOOLEAN : DeleteGameResponse(parsed)
    \/ DeleteGameNetworkError

\* the game list page when the user does not wait for the list
NextIndexEarly ==
    \/ \E title \in Titles : AddGameEarly(title)
    \/ \E title \in Titles : DeleteGameEarly(title)
    \/ ServeEarlierGames
    \/ \E parsed \in BOOLEAN : EarlierGamesResponse(parsed)
    \/ EarlierGamesNetworkError

\* rating.html and its backend, for the values the user types
NextBasic(inputs) ==
    \/ \E g \in Games \cup {NoGame} : LoadBasicPage(g)
    \/ ServeList
    \/ \E parsed \in BOOLEAN : ListResponse(parsed)
    \/ ListNetworkError
    \/ \E in \in inputs : BasicSubmit(in)
    \/ ServeBasicSubmit
    \/ \E parsed \in BOOLEAN : BasicSubmitResponse(parsed)
    \/ BasicSubmitNetworkError

\* the pages other than the profile page and the ratings pages, with the
\* login through the form
SpecSite ==
    InitWith(NoAudit) /\ [][TokenExpires \/ NextHeaderPages \/ NextLogin \/ NextIndex
                             \/ NextBasic(RatingInputs)]_vars

\* The profile page with a browser that settles every fetch of a page that
\* stays loaded: the backend answers, and the response or the rejection
\* reaches the handler.  The browser user has rated a game or not.
SpecProfileLive ==
    /\ InitWith(NoAudit)
    /\ [][NextBrowser \/ NextProfile \/ NextOwnRating]_vars
    /\ WF_vars(ServeRec)
    /\ SF_vars((\E parsed \in BOOLEAN : RecResponse(parsed)) \/ RecNetworkError)

\* the pages that send state-changing requests: the ratings pages, rating.html
\* and the game list page
SpecClient ==
    InitWith(NoAudit) /\ [][Login(BrowserUser) \/ NextRatings \/ NextIndex
                             \/ NextBasic({EmptyInput, Typed(10), Typed(11)})]_vars

\* the registration form and its backend
NextRegister ==
    \/ \E u \in UsernameInputs, e \in EmailInputs, p \in PasswordInputs :
          RegisterSubmit(u, e, p)
    \/ ServeRegister
    \/ \E parsed \in BOOLEAN : RegisterResponse(parsed)
    \/ RegisterNetworkError
    \/ RegisterRedirect

\* the pages that only show the header, the login form and the registration
\* form
SpecRegister ==
    InitWith(NoAudit) /\ [][NextHeaderPages \/ NextLogin \/ NextRegister]_vars

\* the game list page with a user who does not wait for the list
SpecIndexRace == InitWith(NoAudit) /\ [][NextIndex \/ NextIndexEarly]_vars

\* a message element of a page: calls of showMessage, time, and the timers
NextMessage ==
    \/ \E text \in MessageTexts : showMessage(text)
    \/ HideTimerFires
    \/ Tick

SpecMessage == InitWith(NoAudit) /\ [][NextMessage]_vars

\* the star widget of the ratings page and the stars of a row
NextStars ==
    \/ \E r \in 0..MaxBackendRating : DisplayRating(r)
    \/ \E v \in 1..StarCount : HoverStar(v)
    \/ MouseOutStar
    \/ \E v \in 1..StarCount : ClickStarValue(v)
    \/ StoreStarRating

SpecStars == InitStars /\ [][NextStars]_vars

(***************************************************************************)
(* Properties of the rating endpoints (SpecRatingsApi)                     *)
(***************************************************************************)
\* C1: after any creates, updates and deletes by any users there is at most
\* one rating for each (user, game) pair, and a create request for a pair
\* that already has a rating is answered 409 and leaves the stored ratings
\* as they were.
C1_OneRatingPerUserAndGame ==
    /\ \A r1, r2 \in ratings : r1.user = r2.user /\ r1.game = r2.game => r1 = r2
    /\ srv.op = "create" /\ srv.hadPair => srv.status = 409 /\ srv.sameRatings

\* a duplicate create was answered while other ratings are stored
C1_Witness ==
    /\ srv.op = "create" /\ srv.hadPair /\ srv.status = 409
    /\ Cardinality(ratings) = 2

\* C2: a listing of a user's ratings or of a game's ratings has no rating of
\* a (user, game) pair whose rating was deleted and not created again.
C2_DeletedNotListed ==
    srv.op \in {"listUser", "listGame"} /\ srv.status = 200
        => \A r \in srv.body : <<r.user, r.game>> \notin deletedPairs

\* a game's ratings were listed after one of them was deleted: the listing
\* has the other user's rating only
C2_Witness ==
    /\ srv.op = "listGame" /\ srv.status = 200 /\ srv.body # {}
    /\ \E p \in deletedPairs : srv.arg = <<p[2]>>

\* C8: an update or delete request for a rating that is not issued with the
\* token of the rating's owner is rejected and leaves the stored ratings as
\* they were.
C8_OnlyOwnerChangesRating ==
    srv.op \in {"update", "delete"} /\ ~(srv.user \in Users /\ srv.user = srv.owner)
        => ~Ok(srv.status) /\ srv.sameRatings

\* a user's update of another user's rating was rejected
C8_Witness ==
    /\ srv.op = "update" /\ srv.user \in Users /\ srv.owner \in Users
    /\ srv.user # srv.owner /\ srv.status \in {403, 404}
    /\ \E r \in ratings : r.id = srv.arg[1] /\ r.user = srv.owner

(***************************************************************************)
(* Properties of the recommendations endpoint (SpecRecsApi)                *)
(***************************************************************************)
\* the answered request is an authenticated recommendations request
RecTxn(force) == srv.op = "rec" /\ srv.user \in Users /\ srv.arg = <<force>>

C10_CacheKeyedByUser ==
    srv.op = "rec"
        => /\ srv.cacheChanged \subseteq {srv.user}
           /\ srv.status = 200 /\ ~srv.called
                  => srv.body = (IF srv.hadRatings THEN srv.hadCache.recs ELSE {})

\* a request changed the requester's cached set while another user has a
\* different one
C10_Witness ==
    /\ srv.op = "rec" /\ srv.cacheChanged = {srv.user}
    /\ \E u \in Users \ {srv.user} :
          recCache[u].present /\ recCache[u].recs # recCache[srv.user].recs

(***************************************************************************)
(* Properties of the profile page (SpecProfile)                            *)
(***************************************************************************)
\* C5: a recommendations request of a user who has no ratings is answered
\* 200 with an empty list, forced or not; the page that handled such a
\* response shows the 'rate more games' status and no cards.
C5_NoRatingsEmptyList ==
    /\ srv.op = "rec" /\ srv.user \in Users /\ ~srv.hadRatings
           => srv.status = 200 /\ srv.body = {}
    /\ handled.op = "rec" /\ handled.status = 200 /\ handled.parsed /\ handled.body = {}
           => /\ container = [view |-> "empty", cards |-> {}]
              /\ recStatus.text = "ratemore" /\ ~recStatus.hidden

\* the page handled the answer to a forced request of a user without ratings
C5_Witness ==
    /\ srv.op = "rec" /\ srv.user = BrowserUser /\ ~srv.hadRatings
    /\ handled.op = "rec" /\ handled.arg = <<TRUE>> /\ handled.status = 200
    /\ handled.parsed /\ recStatus.text = "ratemore"

\* C7 as stated: after the page handled a response with status 401 or 403,
\* the stored token is removed and the browser is at the login page.
C7_AuthFailureLogsOut ==
    handled.status \in AuthFailStatuses => token = NoToken /\ location = "login"

\* the recommendations request of the page failed
RecFailed ==
    /\ handled.op = "rec"
    /\ handled.status = 0 \/ ~Ok(handled.status) \/ ~handled.parsed

\* C9: after a recommendations request failed (a response that is not OK, a
\* rejected fetch or a body that does not parse) the page shows no cards and
\* a visible failure message.
C9_FailedRequestShowsNoCards ==
    RecFailed => /\ container = [view |-> "empty", cards |-> {}]
                 /\ recStatus.text = "failed" /\ ~recStatus.hidden

\* a forced request failed on a body that did not parse, after an earlier
\* request had succeeded with recommendations
C9_Witness ==
    /\ RecFailed /\ handled.arg = <<TRUE>> /\ handled.status = 200 /\ handled.body # {}
    /\ recCache[BrowserUser].present

\* C13: a recommendations request is sent only by a page load or a click on
\* Generate (one request each); the step that handles a response or a
\* rejected fetch, failed or not, leaves no request in flight.
C13_NoAutomaticRetry ==
    [][/\ recReq'.stage = "sent" /\ recReq' # recReq => LoadProfilePage \/ ClickGenerate
       /\ handled'.op = "rec" /\ handled' # handled => recReq' = NoReq]_vars

\* a forced request failed and no request is in flight
C13_Witness ==
    /\ location = "profile" /\ RecFailed /\ handled.arg = <<TRUE>>
    /\ recReq = NoReq /\ ~generateButton.disabled

\* C16: the request of a page load never carries force_generate, and a
\* request that carries it is sent by a click on Generate only.
C16_ForceOnlyByClick ==
    [][/\ LoadProfilePage /\ recReq'.stage = "sent" => recReq'.arg = <<FALSE>>
       /\ recReq'.stage = "sent" /\ recReq'.arg = <<TRUE>> /\ recReq' # recReq
              => ClickGenerate]_vars

\* a forced request is in flight on a page that was loaded with a token
C16_Witness ==
    location = "profile" /\ recReq.stage = "sent" /\ recReq.arg = <<TRUE>>

\* C17 as stated: the status element is marked as an error only if the most
\* recent completed fetch failed (while a fetch is in flight the mark of the
\* last one may stand); the 'rate more games' message is never marked.
C17_ErrorMarkOnlyAfterFailure ==
    /\ recStatus.error => recStatus.text = "failed" \/ container.view = "loading"
    /\ recStatus.text = "ratemore" => ~recStatus.error

(***************************************************************************)
(* Properties of the ratings page (SpecRatings)                            *)
(***************************************************************************)
\* the request was answered and carried an expired or malformed token
ServedBadToken(req) == req.stage = "served" /\ TokenUser(req.token) = NoUser

\* C6: a request of the page to a token-protected endpoint that carries an
\* expired or malformed token is answered 401 or 403 with no data, and the
\* rows of the table are never taken from a 401 or 403 response.
C6_BadTokenNoData ==
    /\ \A req \in {submitReq, deleteReq} \cup
                  (IF fetchReq.arg = <<NoGame>> THEN {fetchReq} ELSE {}) :
          ServedBadToken(req) => req.status \in AuthFailStatuses /\ req.body = {}
    /\ rowsStatus \notin AuthFailStatuses

\* the page handled a 403 to its list request and still shows the rows of an
\* earlier list
C6_Witness ==
    /\ handled.op = "fetchRatings" /\ handled.status = 403
    /\ token.kind = "expired" /\ ratedRows # {} /\ rowsStatus = 200

\* C20: on the page with the game-specific view a row has its Edit and
\* Delete buttons only if the stored token carries a user id and the rating
\* is that user's.
C20_ControlsOnlyForOwner ==
    pageVersion = "part_001"
        => \A r \in ratedRows :
              r.controls => currentUserId # NoUser /\ r.user = PayloadUserId(token)

\* the game's ratings are shown: the user's own with buttons, another
\* user's without
C20_Witness ==
    /\ pageVersion = "part_001" /\ urlGameId # NoGame
    /\ \E r1, r2 \in ratedRows :
          /\ r1.game = urlGameId /\ r2.game = urlGameId
          /\ r1.controls /\ ~r2.controls /\ r2.user # PayloadUserId(token)

\* the step sends the request of the rating form
SubmitSent == submitReq'.stage = "sent" /\ submitReq.stage # "sent"

\* C11 as stated: every rating value the form sends, on create and on
\* update, is 2 times the number of stars shown as selected in the form.
C11_SentValueIsTwiceStars ==
    [][SubmitSent => submitReq'.arg[3] = 2 * form.stars]_vars

\* C11, amended: the stars shown as selected are the value the form sends
\* halved and rounded up, and a create request sends 2 times the stars (an
\* update sends the listed value of the edited row while no star is clicked).
C11_StarsShownAreSentValueHalved ==
    [][SubmitSent => /\ form.stars = StarsOf(submitReq'.arg[3])
                     /\ submitReq'.arg[1] = "POST" => submitReq'.arg[3] = 2 * form.stars]_vars

\* an update was sent with a value a star click had set
C11_Witness ==
    /\ submitReq.stage = "sent" /\ submitReq.arg[1] = "PUT"
    /\ submitReq.arg[3] = 2 * form.stars
    /\ \E r \in ratedRows : r.id = submitReq.arg[2] /\ r.rating # submitReq.arg[3]

(***************************************************************************)
(* Properties of the page header and of the stored token (SpecSite)        *)
(***************************************************************************)
\* the two states of the header
HeaderIsLoggedIn(sub) ==
    /\ header.welcomeShown /\ header.welcomeText = sub /\ header.logoutShown
    /\ ~header.loginLinkShown /\ ~header.registerLinkShown
HeaderIsLoggedOut ==
    /\ ~header.welcomeShown /\ ~header.logoutShown
    /\ header.loginLinkShown /\ header.registerLinkShown

\* C18: whenever checkLoginStatus has returned, the header is logged-in
\* (welcome message with the token's sub and logout button shown, login and
\* register links hidden) if a token that decodes is stored, and logged-out
\* (welcome message and logout button hidden, both links shown) otherwise.
C18_HeaderLoggedInOrLoggedOut ==
    loginStatus.page # "none" =>
        IF Decodable(loginStatus.token)
        THEN HeaderIsLoggedIn(loginStatus.token.sub)
        ELSE HeaderIsLoggedOut

\* the game list page after a click on its logout button: the header went
\* from logged-in to logged-out
C18_Witness ==
    /\ loginStatus.page = "index.html" /\ loginStatus.token = NoToken
    /\ header.welcomeText = BrowserUser /\ HeaderIsLoggedOut

\* C19: checkLoginStatus returns true exactly when a token is still stored
\* on return (the pages whose checkLoginStatus returns a value).
C19_TrueIffTokenStored ==
    loginStatus.page \notin {"none", "main.js"} =>
        (loginStatus.result = "true" <=> HasToken(loginStatus.token))

\* The string localStorage holds: a token that expired is the string that
\* was stored while it was valid.
Stored(t) == IF t.kind = "expired" THEN [t EXCEPT !.kind = "valid"] ELSE t

\* a step in which logout() runs: a click on the logout button, a page load
\* with a token that does not decode, the 401 branch of fetchGames
LogoutStep ==
    \/ SiteClickLogout
    \/ /\ HasToken(token) /\ ~Decodable(token)
       /\ LoadIndexPage \/ \E page \in HeaderOnlyPages : LoadHeaderPage(page)
    \/ gamesReq.status = 401 /\ \E parsed \in BOOLEAN : GamesResponse(parsed)

\* C15: the stored token changes only in two ways: the login handler, on an
\* OK response of /auth/token, stores the access_token of that response, and
\* logout() removes it; a failed login and every other operation leave it
\* as it is.
C15_TokenWrittenByLoginRemovedByLogout ==
    [][Stored(token') # Stored(token) =>
          \/ token' = NoToken /\ LogoutStep
          \/ /\ loginReq.stage = "served" /\ Ok(loginReq.status)
             /\ token' \in loginReq.body
             /\ LoginResponse(TRUE)]_vars

\* a login through the form of a page that was loaded with no token stored
C15_Witness ==
    /\ loginStatus.page \in {"login.html", "backlog.html"} /\ loginStatus.token = NoToken
    /\ loginMessage = "success" /\ token = [sub |-> BrowserUser, kind |-> "valid"]

(***************************************************************************)
(* Properties of the requests the pages send (SpecClient)                  *)
(***************************************************************************)
\* the create and update requests of the pages: the value is arg[3]
RatingRequests == {r \in {submitReq, ratingReq} : r.stage # "none"}

\* the requests that change stored state
ChangingRequests ==
    {r \in {submitReq, deleteReq, ratingReq, addGameReq, deleteGameReq} : r.stage # "none"}

C14_ChangingRequestsCarryStoredToken ==
    [][/\ \A r \in ChangingRequests' : HasToken(r.token)
       /\ \A pair \in {<<submitReq, submitReq'>>, <<deleteReq, deleteReq'>>,
                         <<ratingReq, ratingReq'>>, <<addGameReq, addGameReq'>>,
                         <<deleteGameReq, deleteGameReq'>>} :
              pair[2].stage = "sent" /\ pair[1].stage # "sent"
                 => HasToken(token) /\ pair[2].token = token]_vars

\* the game list page has sent an add request with the stored token, which
\* has expired
C14_Witness ==
    /\ addGameReq.stage = "sent" /\ addGameReq.token = token
    /\ token.kind = "expired"

(***************************************************************************)
(* Properties of the Generate button (SpecProfile, SpecProfileLive)        *)
(***************************************************************************)
\* C23: at most one recommendations request of the page is in flight: the
\* Generate button is disabled while a request is pending, and a click
\* starts a request only when none is pending.
C23_OneRecommendationsRequest ==
    [][/\ recReq'.stage # "none" => generateButton'.disabled
       /\ ClickGenerate => recReq.stage = "none"]_vars

\* the answer to a forced request is on its way and the button is disabled
C23_Witness ==
    /\ recReq.stage = "served" /\ recReq.arg = <<TRUE>> /\ generateButton = ButtonBusy

\* C24: every call of fetchAndDisplayRecommendations ends with the button
\* enabled and labelled 'Generate New Recommendations', whatever the outcome.
C24_ButtonEnabledInTheEnd ==
    (generateButton # ButtonReady) ~> (generateButton = ButtonReady)

\* a request is pending with the button disabled, after a call that ended in
\* the catch branch
C24_Witness ==
    /\ generateButton = ButtonBusy /\ recReq.stage = "sent" /\ recStatus.error

(***************************************************************************)
(* Properties of the rating form (SpecRatings)                             *)
(***************************************************************************)
\* the submit handler has handled an OK response and the page stays
SubmitSucceeded == handled'.op = "submit" /\ Ok(handled'.status) /\ handled' # handled

\* C25: the form sends PUT for the rating id it holds, with no game_id,
\* exactly when it is in edit mode, and POST with the selected game
\* otherwise; after every successful submit it is in create mode with zero
\* stars and the label 'Submit Rating'.
C25_PutInEditModePostOtherwise ==
    [][/\ SubmitSent =>
             submitReq'.arg = IF form.ratingId # 0
                              THEN <<"PUT", form.ratingId, form.score>>
                              ELSE <<"POST", form.game, form.score>>
       /\ SubmitSucceeded =>
             form'.ratingId = 0 /\ form'.stars = 0 /\ form'.score = 0
             /\ form'.label = "Submit Rating"]_vars

\* an update was answered OK and the form is in create mode again
C25_Witness ==
    /\ handled.op = "submit" /\ Ok(handled.status) /\ handled.arg[1] = "PUT"
    /\ form.ratingId = 0 /\ form.label = "Submit Rating"

\* C26: whenever the form is in edit mode, no request of the page is
\* pending and the page shows a listing it fetched, the rating id the form
\* holds is of a rating in that listing, so that an update request is never sent for a rating the user has
\* deleted.
C26_EditModeRatingListed ==
    location = "ratings" /\ RatingsIdle /\ Ok(rowsStatus) /\ form.ratingId # 0 =>
        \E r \in ratedRows : r.id = form.ratingId

\* C27: on the game-specific ratings page (part_001 opened with a game_id)
\* the rating form is visible whenever it is in edit mode: no reachable state
\* has a rating id set by Edit on a hidden form.
C27_EditModeFormVisible ==
    location = "ratings" /\ pageVersion = "part_001" /\ urlGameId # NoGame
        /\ form.ratingId # 0 => ~form.hidden


\* C28: on the ratings page opened with a game_id in the URL (part_001), once
\* the listing is fetched and shows a rating of the logged-in user for that
\* game, the form is in edit mode for that rating (rating id set, 'Update
\* Rating' label).
C28_PrefilledForOwnRating ==
    location = "ratings" /\ pageVersion = "part_001" /\ urlGameId # NoGame
        /\ RatingsIdle /\ Ok(rowsStatus) =>
            \A r \in ratedRows :
                r.controls /\ r.game = urlGameId =>
                    form.ratingId = r.id /\ form.label = "Update Rating"


\* the least whole number that is at least half of r
HalfRoundedUp(r) == CHOOSE n \in 0..r : 2 * n >= r /\ 2 * (n - 1) < r

\* C22: for every star count s in 1..5 a rating stored as
\* convertStarsToBackendRating(s) is displayed with exactly s filled stars,
\* and for every backend rating r in 1..10 the row fills ceil(r/2) stars, a
\* number in 1..5.
C22_StarsRoundTrip ==
    /\ starCase.fromStars \in 1..5 => starCase.rowFilled = starCase.fromStars
    /\ starCase.rating \in 1..10 =>
          /\ starCase.rowFilled = HalfRoundedUp(starCase.rating)
          /\ starCase.rowFilled \in 1..5
C22_Witness ==
    /\ starCase.fromStars = 5 /\ starCase.rating = 10 /\ starCase.rowFilled = 5
    /\ starCase.stars = 2 /\ starCase.score = 4


\* C21: a message shown by showMessage stays visible for 5 seconds after the
\* most recent showMessage call on its element: until then no timer of an
\* earlier call hides it.
C21_MessageVisibleFiveSeconds ==
    shownAt >= 0 /\ clock < shownAt + HideDelay => messageElement.display = "block"


\* a registration request leaves the browser in this step
RegisterSent == registerReq'.stage = "sent" /\ registerReq.stage # "sent"
\* a step of the registration form or of its request
RegisterStep ==
    location = "register" /\ location' = "register"
        /\ (registerReq' # registerReq \/ registerMessage' # registerMessage)

\* C30: every registration request has a non-empty username, a non-empty
\* email, a password of at least 8 characters and is_admin false; a submit
\* whose typed values fail one of these checks sends no request; and no step
\* of the registration stores an access token.
C30_RegistrationRequestsValid ==
    [][/\ RegisterSent =>
             /\ registerReq'.arg[1] # <<>> /\ registerReq'.arg[1] = Trim(registerReq'.arg[1])
             /\ registerReq'.arg[2] # <<>>
             /\ Len(registerReq'.arg[3]) >= 8
             /\ registerReq'.arg[4] = FALSE
       /\ \A u \in UsernameInputs, e \in EmailInputs, p \in PasswordInputs :
             /\ RegisterSubmit(u, e, p)
             /\ (Trim(u) = <<>> \/ Trim(e) = <<>> \/ Len(p) < 8)
             => registerReq' = NoReq /\ registerMessage' \in {"required", "short password"}
       /\ RegisterStep => token' = token]_vars
C30_Witness ==
    /\ location = "register" /\ registerReq.stage = "redirecting"
    /\ registerMessage = "success" /\ accounts = {<<"c">>} /\ token = NoToken


\* C29: on the game list page, once every request has been answered and the
\* last add or delete succeeded with no failure reported after it, the
\* table shows the server's current game list.
C29_TableEqualsServerList ==
    /\ location = "index" /\ HasToken(token)
    /\ IndexIdle /\ earlierGamesReq.stage = "none"
    /\ addGameMessage \in {"added", "deleted"}
    => gameRows = catalog

====
